---- MODULE Spec2Model ----
(***************************************************************************)
(* Verification model of the living-doc-toolkit normalization pipeline:    *)
(* run_service (load, adapter selection, parse, build, write), the         *)
(* collector-gh compatibility check and the markdown section normalizer.   *)
(*                                                                         *)
(* Text is modelled as a sequence of tokens.  A token is one newline, one  *)
(* space, the two-hash marker "##", the three-hash marker "###" or one     *)
(* word (a run of non-blank characters that does not start with '#').      *)
(***************************************************************************)
EXTENDS Integers, Sequences, FiniteSets, TLC

VARIABLES
    pc,             \* per run: the stage run_service is about to execute
    infile,         \* per run: the input file
    options,        \* per run: the options dictionary
    outenv,         \* per run: how the output medium behaves
    outfile,        \* per run: the output destination
    outfile0,       \* per run: the output destination before the run
    payload,        \* per run: local variable payload
    adapter_result, \* per run: local variable adapter_result
    pdf_ready,      \* per run: local variable pdf_ready
    error,          \* per run: the exception that left run_service
    trace,          \* per run: the stages executed so far
    writes,         \* per run: the number of calls of write_json
    logger,         \* the process-wide logger logging.getLogger("living_doc")
    body, norm_result, norm_pc,
    version, compat_result, compat_pc,
    a_payload,      \* adapter calls: the payload given to the adapter
    a_options,      \* adapter calls: the options given to the builder
    a_can_handle,   \* adapter calls: outcome of can_handle(payload)
    a_version,      \* adapter calls: outcome of extract_version(payload)
    a_parsed,       \* adapter calls: outcome of parse(payload)
    a_built,        \* adapter calls: outcome of build_pdf_ready(result, options)
    a_pc,           \* adapter calls: the call to make next
    m_model,        \* model construction: the model class
    m_data,         \* model construction: the names of the fields supplied
    m_result,       \* model construction: outcome of the construction
    m_pc            \* model construction: the call to make next

norm_vars == <<body, norm_result, norm_pc>>

compat_vars == <<version, compat_result, compat_pc>>

service_vars ==
    <<pc, infile, options, outenv, outfile, outfile0, payload, adapter_result,
      pdf_ready, error, trace, writes, logger>>

adapter_vars == <<a_payload, a_options, a_can_handle, a_version, a_parsed, a_built, a_pc>>

model_vars == <<m_model, m_data, m_result, m_pc>>

vars == <<service_vars, norm_vars, compat_vars, adapter_vars, model_vars>>

(***************************************************************************)
(* Python values: None and str.                                            *)
(***************************************************************************)
None == [isNone |-> TRUE, s |-> <<>>]

Str(toks) == [isNone |-> FALSE, s |-> toks]

\* Python truthiness of an Optional[str]: None and "" are falsy.
Truthy(v) == ~v.isNone /\ v.s # <<>>

NL == "\n"

SP == " "

H2 == "##"

H3 == "###"

Whitespace == {SP, NL}

(***************************************************************************)
(* str.rstrip(), str.lstrip(), str.strip() on token sequences.             *)
(***************************************************************************)
RECURSIVE rstrip(_)
rstrip(t) ==
    IF t # <<>> /\ t[Len(t)] \in Whitespace
    THEN rstrip(SubSeq(t, 1, Len(t) - 1))
    ELSE t

RECURSIVE lstrip(_)
lstrip(t) ==
    IF t # <<>> /\ t[1] \in Whitespace
    THEN lstrip(Tail(t))
    ELSE t

strip(t) == lstrip(rstrip(t))

\* str.lower() of one word.
LowerWord(w) ==
    CASE w = "Description" -> "description"
      [] w = "Summary" -> "summary"
      [] w = "Overview" -> "overview"
      [] w = "Value" -> "value"
      [] w = "Why" -> "why"
      [] w = "AC" -> "ac"
      [] w = "Setup" -> "setup"
      [] w = "Custom" -> "custom"
      [] w = "Other" -> "other"
      [] w = "A" -> "a"
      [] w = "B" -> "b"
      [] OTHER -> w

lower(t) == [i \in 1..Len(t) |-> LowerWord(t[i])]

normalize_heading(t) == lower(strip(t))

(***************************************************************************)
(* split_by_headings: the regular expression ^#{2}\s+(.+)$ in MULTILINE    *)
(* mode, finditer, and the insertion-ordered dictionary it fills.          *)
(***************************************************************************)
AtLineStart(t, i) == i = 1 \/ t[i - 1] = NL

\* Last index of the maximal run of whitespace that starts at index i.
RECURSIVE WsRunEnd(_, _)
WsRunEnd(t, i) ==
    IF i + 1 <= Len(t) /\ t[i + 1] \in Whitespace
    THEN WsRunEnd(t, i + 1)
    ELSE i

\* Last index of the line that contains index i (the "." of the pattern
\* never matches a newline, "$" matches before a newline or at the end).
RECURSIVE LineEnd(_, _)
LineEnd(t, i) ==
    IF i + 1 <= Len(t) /\ t[i + 1] # NL
    THEN LineEnd(t, i + 1)
    ELSE i

\* Indices j at which the greedy \s+ may stop so that (.+) can start at j+1.
GroupStarts(t, i) ==
    {j \in (i + 1)..WsRunEnd(t, i + 1) : j + 1 <= Len(t) /\ t[j + 1] # NL}

MatchesAt(t, i) ==
    /\ i + 1 <= Len(t)
    /\ AtLineStart(t, i)
    /\ t[i] = H2
    /\ t[i + 1] \in Whitespace
    /\ GroupStarts(t, i) # {}

SetMax(S) == CHOOSE x \in S : \A y \in S : y <= x

SetMin(S) == CHOOSE x \in S : \A y \in S : x <= y

\* The match object: start index, index of the last matched token and
\* group(1).  \s+ is greedy, so the group starts as late as possible.
MatchAt(t, i) ==
    LET j == SetMax(GroupStarts(t, i))
        e == LineEnd(t, j + 1)
    IN [start |-> i, last |-> e, group |-> SubSeq(t, j + 1, e)]

\* finditer: non-overlapping matches, left to right, from index pos on.
RECURSIVE FindIter(_, _)
FindIter(t, pos) ==
    LET starts == {i \in pos..Len(t) : MatchesAt(t, i)}
    IN IF starts = {}
       THEN <<>>
       ELSE LET m == MatchAt(t, SetMin(starts))
            IN <<m>> \o FindIter(t, m.last + 1)

\* dict[key] = val on an insertion-ordered dictionary kept as a sequence of
\* [k, v] entries: an existing key keeps its position and gets the new value.
DictHas(d, key) == \E i \in 1..Len(d) : d[i].k = key

DictGet(d, key) == d[CHOOSE i \in 1..Len(d) : d[i].k = key].v

DictSet(d, key, val) ==
    IF DictHas(d, key)
    THEN [i \in 1..Len(d) |-> IF d[i].k = key THEN [k |-> key, v |-> val] ELSE d[i]]
    ELSE Append(d, [k |-> key, v |-> val])

RECURSIVE SplitLoop(_, _, _, _)
SplitLoop(t, matches, i, result) ==
    IF i > Len(matches)
    THEN result
    ELSE LET match == matches[i]
             heading_text == strip(match.group)
             after == match.last + 1
             content_start == IF after <= Len(t) /\ t[after] = NL THEN after + 1 ELSE after
             content_end == IF i + 1 <= Len(matches) THEN matches[i + 1].start - 1 ELSE Len(t)
             content == rstrip(SubSeq(t, content_start, content_end))
         IN SplitLoop(t, matches, i + 1, DictSet(result, heading_text, content))

split_by_headings(t) ==
    IF t = <<>>
    THEN <<[k |-> <<>>, v |-> <<>>]>>
    ELSE LET matches == FindIter(t, 1)
         IN IF matches = <<>>
            THEN <<[k |-> <<>>, v |-> t]>>
            ELSE LET first == matches[1].start
                     pre == IF first > 1
                            THEN <<[k |-> <<>>, v |-> rstrip(SubSeq(t, 1, first - 1))]>>
                            ELSE <<>>
                 IN SplitLoop(t, matches, 1, pre)

(***************************************************************************)
(* normalize_sections                                                      *)
(***************************************************************************)
CanonicalKeys ==
    {"description", "business_value", "preconditions", "acceptance_criteria",
     "user_guide", "connections", "last_edited"}

\* HEADING_SYNONYMS; a synonym of several words is one word of the model.
HEADING_SYNONYMS ==
    [description |-> {"description", "overview", "summary"},
     business_value |-> {"business value", "value", "why"},
     preconditions |-> {"preconditions", "prerequisites", "setup"},
     acceptance_criteria |-> {"acceptance criteria", "ac", "done criteria"},
     user_guide |-> {"user guide", "how to", "instructions"},
     connections |-> {"connections", "related", "links"},
     last_edited |-> {"last edited", "history", "changes"}]

IsSynonym(normalized) ==
    Len(normalized) = 1 /\ \E c \in CanonicalKeys : normalized[1] \in HEADING_SYNONYMS[c]

synonym_to_canonical(normalized) ==
    CHOOSE c \in CanonicalKeys : normalized[1] \in HEADING_SYNONYMS[c]

\* "\n\n".join(parts)
RECURSIVE JoinBlank(_)
JoinBlank(parts) ==
    IF Len(parts) = 0 THEN <<>>
    ELSE IF Len(parts) = 1 THEN parts[1]
    ELSE parts[1] \o <<NL, NL>> \o JoinBlank(Tail(parts))

\* f"### {heading}\n{content.strip()}"
UnknownBlock(heading, content) == <<H3, SP>> \o heading \o <<NL>> \o strip(content)

\* The loop over sections_raw.items(); st carries result (a function from
\* the keys set so far to their values), description_parts and
\* known_description_content.
RECURSIVE SectionsLoop(_, _, _)
SectionsLoop(raw, i, st) ==
    IF i > Len(raw)
    THEN st
    ELSE LET heading == raw[i].k
             content == raw[i].v
             normalized == normalize_heading(heading)
             has_content == content # <<>> /\ strip(content) # <<>>
         IN IF heading = <<>>
            THEN SectionsLoop(raw, i + 1, st)
            ELSE IF IsSynonym(normalized)
            THEN LET canonical == synonym_to_canonical(normalized)
                 IN IF ~has_content
                    THEN SectionsLoop(raw, i + 1, st)
                    ELSE IF canonical = "description"
                    THEN SectionsLoop(raw, i + 1, [st EXCEPT !.known = Str(strip(content))])
                    ELSE SectionsLoop(raw, i + 1,
                            [st EXCEPT !.result =
                                [key \in DOMAIN st.result \cup {canonical} |->
                                    IF key = canonical THEN Str(strip(content))
                                    ELSE st.result[key]]])
            ELSE IF has_content
                 THEN SectionsLoop(raw, i + 1,
                         [st EXCEPT !.parts = Append(st.parts, UnknownBlock(heading, content))])
                 ELSE SectionsLoop(raw, i + 1, st)

EmptyDict == [key \in {} |-> None]

\* The value of a result variable before the call has returned.
NoResult == [key \in {"pending"} |-> None]

OnlyDescription(v) == [key \in {"description"} |-> v]

\* The state of normalize_sections when its loop has ended.
SectionsState(markdown) ==
    LET sections_raw == split_by_headings(markdown.s)
        pre_parts == IF DictHas(sections_raw, <<>>) /\ DictGet(sections_raw, <<>>) # <<>>
                     THEN <<strip(DictGet(sections_raw, <<>>))>>
                     ELSE <<>>
    IN SectionsLoop(sections_raw, 1, [result |-> EmptyDict, parts |-> pre_parts, known |-> None])

WithDescription(result, v) ==
    [key \in DOMAIN result \cup {"description"} |->
        IF key = "description" THEN v ELSE result[key]]

\* final_description_parts: known description first, then the pre-heading
\* content and the unknown-heading blocks.
FinalDescriptionParts(st) ==
    (IF Truthy(st.known) THEN <<st.known.s>> ELSE <<>>) \o st.parts

\* if final_description_parts: result["description"] = "\n\n".join(...)
JoinedDescription(result, final_description_parts) ==
    IF final_description_parts # <<>>
    THEN WithDescription(result, Str(JoinBlank(final_description_parts)))
    ELSE result

\* if not result: result["description"] = None
NoneIfEmpty(result) == IF DOMAIN result = {} THEN OnlyDescription(None) ELSE result

normalize_sections(markdown) ==
    IF ~Truthy(markdown)
    THEN OnlyDescription(None)
    ELSE NoneIfEmpty(JoinedDescription(SectionsState(markdown).result,
                                       FinalDescriptionParts(SectionsState(markdown))))

(***************************************************************************)
(* Version strings.  A version string is kept as its parts: the dotted     *)
(* release numbers, the suffix that follows them, whether "+build"         *)
(* metadata ends it, and whether it holds characters no version grammar    *)
(* accepts.  "" is the string with no part at all.                         *)
(***************************************************************************)
MaxNum == 2

MaxRelLen == 3

Suffixes == {"", "-alpha", "-rc.1", "-foo", "-1"}

RECURSIVE NumSeqs(_)
NumSeqs(n) ==
    IF n = 0
    THEN {<<>>}
    ELSE LET prev == NumSeqs(n - 1)
         IN prev \cup {Append(q, x) : q \in prev, x \in 0..MaxNum}

VersionStrings ==
    [rel : NumSeqs(MaxRelLen), suffix : Suffixes, local : BOOLEAN, junk : BOOLEAN]

EmptyString == [rel |-> <<>>, suffix |-> "", local |-> FALSE, junk |-> FALSE]

VersionOf(rel) == [rel |-> rel, suffix |-> "", local |-> FALSE, junk |-> FALSE]

CONFIRMED_MIN == VersionOf(<<1, 0, 0>>)

CONFIRMED_MAX == VersionOf(<<2, 0, 0>>)

\* Lexicographic comparison of two number sequences: -1, 0 or 1.
RECURSIVE CmpSeq(_, _)
CmpSeq(a, b) ==
    IF a = <<>> /\ b = <<>> THEN 0
    ELSE IF a = <<>> THEN -1
    ELSE IF b = <<>> THEN 1
    ELSE IF a[1] < b[1] THEN -1
    ELSE IF a[1] > b[1] THEN 1
    ELSE CmpSeq(Tail(a), Tail(b))

RECURSIVE StripTrailingZeros(_)
StripTrailingZeros(a) ==
    IF a # <<>> /\ a[Len(a)] = 0
    THEN StripTrailingZeros(SubSeq(a, 1, Len(a) - 1))
    ELSE a

(***************************************************************************)
(* packaging.version.Version: the PEP 440 grammar and ordering.            *)
(*   "-alpha", "-rc.1"  pre-release segments (a0, rc1)                     *)
(*   "-1"               implicit post-release (post1)                      *)
(*   "-foo"             no segment of the grammar: InvalidVersion          *)
(*   "+build"           local version label                                *)
(***************************************************************************)
PepPre(v) == v.suffix \in {"-alpha", "-rc.1"}

PepPost(v) == v.suffix = "-1"

\* Version(version) does not raise InvalidVersion.
VersionParses(v) ==
    /\ ~v.junk
    /\ Len(v.rel) >= 1
    /\ v.suffix \in {"", "-alpha", "-rc.1", "-1"}

\* The order of two parsed versions: -1, 0 or 1.  Release numbers compare
\* without trailing zeros; on equal releases a pre-release is smaller than
\* the final release, a post-release larger, and a local label is the last
\* tie-break.
PepRank(v) == IF PepPre(v) THEN 0 ELSE IF PepPost(v) THEN 2 ELSE 1

VersionCmp(a, b) ==
    LET r == CmpSeq(StripTrailingZeros(a.rel), StripTrailingZeros(b.rel))
    IN IF r # 0 THEN r
       ELSE IF PepRank(a) < PepRank(b) THEN -1
       ELSE IF PepRank(a) > PepRank(b) THEN 1
       ELSE IF a.suffix # b.suffix THEN (IF a.suffix = "-alpha" THEN -1 ELSE 1)
       ELSE IF a.local = b.local THEN 0
       ELSE IF b.local THEN -1
       ELSE 1

Warning(code, template, v) ==
    [code |-> code,
     message |-> [template |-> template, version |-> v],
     context |-> "metadata.generator.version"]

\* The value of compat_result before the call has returned.
NoWarnings == <<Warning("PENDING", "", EmptyString)>>

check_compatibility(v) ==
    IF ~VersionParses(v)
    THEN <<Warning("INVALID_VERSION", "is not a valid semantic version", v)>>
    ELSE IF VersionCmp(CONFIRMED_MIN, v) <= 0 /\ VersionCmp(v, CONFIRMED_MAX) < 0
    THEN <<>>
    ELSE <<Warning("VERSION_MISMATCH", "is outside confirmed range", v)>>

(***************************************************************************)
(* Semantic Versioning 2.0.0, the yardstick of the compatibility contract: *)
(* exactly three release numbers, any "-identifier" suffix is a            *)
(* pre-release, build metadata is ignored by precedence.                   *)
(***************************************************************************)
SemverValid(v) == ~v.junk /\ Len(v.rel) = 3

SemverCmp(a, b) ==
    LET r == CmpSeq(a.rel, b.rel)
    IN IF r # 0 THEN r
       ELSE IF (a.suffix = "") = (b.suffix = "") THEN 0
       ELSE IF a.suffix # "" THEN -1
       ELSE 1

SemverInRange(v) ==
    /\ SemverValid(v)
    /\ SemverCmp(CONFIRMED_MIN, v) <= 0
    /\ SemverCmp(v, CONFIRMED_MAX) < 0

(***************************************************************************)
(* JSON nodes of the input payload, and results of calls that may raise.   *)
(***************************************************************************)
Absent == [t |-> "absent"]

JNull == [t |-> "null"]

JStr(x) == [t |-> "str", s |-> x]

JNum(n) == [t |-> "num", n |-> n]

Ok(v) == [ok |-> TRUE, value |-> v]

\* A raised exception: its class and its message (pieces of text in order).
Raised(kind, msg) == [ok |-> FALSE, kind |-> kind, msg |-> msg]

GH_NAME == "AbsaOSS/living-doc-collector-gh"

\* The node metadata.generator.version holding the version string v.
JVer(v) == [t |-> "str", s |-> v]

\* Python truthiness of the version node and of a text node.
VersionTruthy(j) ==
    CASE j.t = "str" -> j.s # EmptyString
      [] j.t = "num" -> j.n # 0
      [] OTHER -> FALSE

TextTruthy(j) == j.t = "str" /\ j.s # ""

(***************************************************************************)
(* detector.py                                                             *)
(***************************************************************************)
VERSION_PATH == "metadata.generator.version"

\* The message of the AttributeError or TypeError that a lookup on a node
\* which is not an object raises.
NotAnObject(node) ==
    CASE node.t = "null" -> "'NoneType' object"
      [] node.t = "str" -> "'str' object"
      [] node.t = "num" -> "'int' object"
      [] OTHER -> "'list' object"

\* The try block of can_handle:
\* input.get("metadata", {}).get("generator", {}).get("name") == GH_NAME;
\* .get on a node that is present but not an object raises AttributeError.
CanHandleBody(input) ==
    IF ~input.object
    THEN Raised("AttributeError", <<"'list' object", " has no attribute 'get'">>)
    ELSE IF input.metadata.t = "absent"
    THEN Ok(FALSE)
    ELSE IF input.metadata.t # "obj"
    THEN Raised("AttributeError", <<NotAnObject(input.metadata), " has no attribute 'get'">>)
    ELSE IF input.metadata.generator.t = "absent"
    THEN Ok(FALSE)
    ELSE IF input.metadata.generator.t # "obj"
    THEN Raised("AttributeError", <<NotAnObject(input.metadata.generator), " has no attribute 'get'">>)
    ELSE Ok(input.metadata.generator.name = JStr(GH_NAME))

\* can_handle without its except clause.
can_handle_unguarded(input) == CanHandleBody(input)

\* can_handle: except Exception: return False
can_handle(input) ==
    IF CanHandleBody(input).ok THEN CanHandleBody(input) ELSE Ok(FALSE)

\* The KeyError or TypeError of input["metadata"]["generator"]["version"],
\* or none.
VersionLookupError(input) ==
    IF ~input.object
    THEN <<"list indices must be integers or slices, not str">>
    ELSE IF input.metadata.t = "absent"
    THEN <<"'metadata'">>
    ELSE IF input.metadata.t # "obj"
    THEN <<NotAnObject(input.metadata), " is not subscriptable">>
    ELSE IF input.metadata.generator.t = "absent"
    THEN <<"'generator'">>
    ELSE IF input.metadata.generator.t # "obj"
    THEN <<NotAnObject(input.metadata.generator), " is not subscriptable">>
    ELSE IF input.metadata.generator.version.t = "absent"
    THEN <<"'version'">>
    ELSE <<>>

\* extract_version that also rejects a version string that does not parse.
extract_version_strict(input) ==
    IF VersionLookupError(input) # <<>>
    THEN Raised("AdapterError",
                <<"Missing or invalid ", VERSION_PATH, " in payload: ">> \o VersionLookupError(input))
    ELSE IF ~VersionTruthy(input.metadata.generator.version)
    THEN Raised("AdapterError", <<"Producer version is empty in ", VERSION_PATH>>)
    ELSE IF input.metadata.generator.version.t = "str" /\ ~VersionParses(input.metadata.generator.version.s)
    THEN Raised("AdapterError", <<"Producer version is invalid in ", VERSION_PATH>>)
    ELSE Ok(input.metadata.generator.version)

extract_version(input) ==
    IF VersionLookupError(input) # <<>>
    THEN Raised("AdapterError",
                <<"Missing or invalid ", VERSION_PATH, " in payload: ">> \o VersionLookupError(input))
    ELSE IF ~VersionTruthy(input.metadata.generator.version)
    THEN Raised("AdapterError", <<"Producer version is empty in ", VERSION_PATH>>)
    ELSE Ok(input.metadata.generator.version)

(***************************************************************************)
(* parser.py                                                               *)
(***************************************************************************)
\* dict.get(key, default) on a node of the input.
GetOr(node, default) == IF node.t = "absent" THEN default ELSE node

REQUIRED_ISSUE_FIELDS == <<"number", "title", "state", "html_url", "created_at", "updated_at">>

\* The required keys of a raw issue in the order the constructor call reads
\* them; the first absent one raises KeyError.
MissingFields(issue) ==
    SelectSeq(REQUIRED_ISSUE_FIELDS, LAMBDA f : issue[f].t = "absent")

\* Fields the AdapterItem model rejects (pydantic ValidationError): a str
\* field holding something else than a string.  The number is only
\* formatted into the id and is never validated.
MistypedFields(issue) ==
    SelectSeq(<<"title", "state", "html_url", "created_at", "updated_at">>,
              LAMBDA f : issue[f].t # "str")

\* str(issue["number"]) inside the f-string.
NumberText(node) ==
    CASE node.t = "num" -> ToString(node.n)
      [] node.t = "str" -> node.s
      [] OTHER -> "None"

\* f"github:{source_repo}#{issue['number']}"
ItemId(source_repo, issue) == <<"github:">> \o source_repo \o <<"#", NumberText(issue.number)>>

AdapterItem(source_repo, issue) ==
    [id |-> ItemId(source_repo, issue),
     title |-> issue.title.s,
     state |-> issue.state.s,
     tags |-> IF issue.labels.t = "absent" THEN <<>> ELSE issue.labels.items,
     url |-> issue.html_url.s,
     timestamps |-> [created |-> issue.created_at.s, updated |-> issue.updated_at.s],
     body |-> issue.body]

\* One pass of the loop body on a raw issue: None when the item is built,
\* else the exception that leaves the inner try statement.  An issue that
\* is not an object raises TypeError on issue['number'], and the handler's
\* issue.get then raises AttributeError.
IssueError(issue) ==
    IF ~issue.object
    THEN Raised("AttributeError", <<"'str' object", " has no attribute 'get'">>)
    ELSE IF MissingFields(issue) # <<>>
    THEN Raised("AdapterError",
                <<"Failed to parse issue ",
                  IF issue.number.t = "absent" THEN "unknown" ELSE NumberText(issue.number),
                  ": ", MissingFields(issue)[1]>>)
    ELSE IF MistypedFields(issue) # <<>>
    THEN Raised("ValidationError",
                <<"1 validation error for AdapterItem", MistypedFields(issue)[1],
                  "Input should be a valid string">>)
    ELSE Ok("item")

\* The loop over input["issues"]: the items built so far, or the first
\* exception.
RECURSIVE ParseIssues(_, _, _, _)
ParseIssues(issues, i, source_repo, items) ==
    IF i > Len(issues)
    THEN Ok(items)
    ELSE IF ~IssueError(issues[i]).ok
    THEN IssueError(issues[i])
    ELSE ParseIssues(issues, i + 1, source_repo, Append(items, AdapterItem(source_repo, issues[i])))

NoRun == [run_id |-> Absent, run_attempt |-> Absent, actor |-> Absent,
          workflow |-> Absent, ref |-> Absent, sha |-> Absent]

NoSource == [systems |-> <<>>, repositories |-> <<>>,
             organization |-> Absent, enterprise |-> Absent]

\* str | None fields of the adapter models: absent keys read as None.
OptStrOk(node) == node.t \in {"absent", "null", "str"}

OptStr(node) == IF node.t = "str" THEN node ELSE JNull

\* The AdapterMetadata built from the metadata node (lines 54-75).
Metadata(metadata_dict, run, source, name, producer_version) ==
    [producer |-> [name |-> name.s, version |-> producer_version.s,
                   build |-> OptStr(metadata_dict.generator.build)],
     run |-> [f \in DOMAIN NoRun |-> OptStr(run[f])],
     source |-> [systems |-> source.systems, repositories |-> source.repositories,
                 organization |-> OptStr(source.organization),
                 enterprise |-> OptStr(source.enterprise)],
     original_metadata |-> metadata_dict]

\* The exception raised between the version check and the issue loop, or
\* none: check_compatibility on a version that is not a string, .get on a
\* run or source node that is not an object, a field the metadata models
\* reject, iteration over issues that are no list.
MetadataError(input, producer_version) ==
    LET metadata_dict == input.metadata
        generator == metadata_dict.generator
    IN IF producer_version.t # "str"
       THEN Raised("TypeError", <<"expected string or bytes-like object">>)
       ELSE IF metadata_dict.source.t \notin {"absent", "obj"}
       THEN Raised("AttributeError", <<NotAnObject(metadata_dict.source), " has no attribute 'get'">>)
       ELSE IF GetOr(generator.name, JStr("")).t # "str" \/ ~OptStrOk(generator.build)
       THEN Raised("ValidationError", <<"1 validation error for AdapterMetadataProducer">>)
       ELSE IF metadata_dict.run.t \notin {"absent", "obj"}
       THEN Raised("AttributeError", <<NotAnObject(metadata_dict.run), " has no attribute 'get'">>)
       ELSE IF metadata_dict.run.t = "obj" /\ \E f \in DOMAIN NoRun : ~OptStrOk(metadata_dict.run[f])
       THEN Raised("ValidationError", <<"1 validation error for AdapterMetadataRun">>)
       ELSE IF input.issues.t \notin {"absent", "list"}
       THEN Raised("TypeError", <<NotAnObject(input.issues), " is not iterable">>)
       ELSE Ok("metadata")

\* Everything parse does once the version is known, up to the except
\* clauses: the AdapterResult or the exception raised in the try block.
ParseBody(input, producer_version, warnings) ==
    LET metadata_dict == input.metadata
        run == IF metadata_dict.run.t = "absent" THEN NoRun ELSE metadata_dict.run
        source == IF metadata_dict.source.t = "absent" THEN NoSource ELSE metadata_dict.source
        source_repo == IF source.repositories # <<>> THEN source.repositories[1] ELSE <<"unknown/repo">>
        name == GetOr(metadata_dict.generator.name, JStr(""))
        issues == IF input.issues.t = "absent" THEN <<>> ELSE input.issues.items
    IN IF ~MetadataError(input, producer_version).ok
       THEN MetadataError(input, producer_version)
       ELSE IF ~ParseIssues(issues, 1, source_repo, <<>>).ok
       THEN ParseIssues(issues, 1, source_repo, <<>>)
       ELSE Ok([items |-> ParseIssues(issues, 1, source_repo, <<>>).value,
                metadata |-> Metadata(metadata_dict, run, source, name, producer_version),
                warnings |-> warnings])

\* parse without its last except clause.
parse_unwrapped(input) ==
    IF ~extract_version(input).ok
    THEN extract_version(input)
    ELSE ParseBody(input, extract_version(input).value,
                   IF extract_version(input).value.t = "str"
                   THEN check_compatibility(extract_version(input).value.s)
                   ELSE <<>>)

\* except AdapterError: raise; except Exception as e: raise AdapterError(...)
ParseExcept(res) ==
    IF res.ok \/ res.kind = "AdapterError"
    THEN res
    ELSE Raised("AdapterError", <<"Failed to parse collector-gh payload: ">> \o res.msg)

\* parse: AdapterError passes, every other exception is re-raised as
\* AdapterError with the cause's message.
parse(input) ==
    IF ~extract_version(input).ok
    THEN extract_version(input)
    ELSE ParseExcept(ParseBody(input, extract_version(input).value,
                               IF extract_version(input).value.t = "str"
                               THEN check_compatibility(extract_version(input).value.s)
                               ELSE <<>>))

(***************************************************************************)
(* builder.py and the validators of the pdf_ready and audit models.        *)
(***************************************************************************)
SectionsOf(normalized) ==
    [key \in CanonicalKeys |-> IF key \in DOMAIN normalized THEN normalized[key] ELSE None]

\* item.body or ""
BodyOrEmpty(b) == IF Truthy(b) THEN b ELSE Str(<<>>)

\* UserStory that leaves the tags out.
UserStoryNoTags(item) ==
    [id |-> item.id, title |-> item.title, state |-> item.state, tags |-> <<>>,
     url |-> item.url, timestamps |-> item.timestamps,
     sections |-> SectionsOf(normalize_sections(BodyOrEmpty(item.body)))]

UserStory(item) ==
    [id |-> item.id, title |-> item.title, state |-> item.state, tags |-> item.tags,
     url |-> item.url, timestamps |-> item.timestamps,
     sections |-> SectionsOf(normalize_sections(BodyOrEmpty(item.body)))]

\* UserStory.title_must_be_valid_length (titles of the model are short).
TitleValid(title) == title # ""

\* source_set: every declared repository, with the "github:" prefix put in
\* front unless it is there already.
SourceSet(repositories) ==
    [i \in 1..Len(repositories) |->
        IF repositories[i] # <<>> /\ repositories[i][1] = "github:"
        THEN repositories[i]
        ELSE <<"github:">> \o repositories[i]]

\* str.replace("github:", "")
RemovePrefixToken(t) == SelectSeq(t, LAMBDA w : w # "github:")

DocumentTitle(opts, source_set) ==
    IF Truthy(opts.document_title)
    THEN opts.document_title
    ELSE IF source_set # <<>>
    THEN Str(<<"Living Documentation - ">> \o RemovePrefixToken(source_set[1]))
    ELSE Str(<<"Living Documentation">>)

\* opts.get("document_version", "1.0.0")
DocumentVersion(opts) ==
    IF opts.document_version.given THEN opts.document_version.value ELSE Str(<<"1.0.0">>)

\* A run context built whether or not the run has an identifier.
RunContextAlways(run) ==
    [present |-> TRUE, ci_run_id |-> run.run_id, triggered_by |-> run.actor,
     branch |-> run.ref, commit_sha |-> run.sha]

RunContext(run) ==
    IF TextTruthy(run.run_id)
    THEN [present |-> TRUE, ci_run_id |-> run.run_id, triggered_by |-> run.actor,
          branch |-> run.ref, commit_sha |-> run.sha]
    ELSE [present |-> FALSE]

\* Producer.name_must_be_non_empty
ProducerValid(producer) == producer.name # "" /\ producer.name # " "

\* Source.systems_must_be_non_empty
SourceValid(source) == source.systems # <<>>

\* An envelope whose step reads the clock again when it has finished.
AuditEnvelopeTimed(result, now) ==
    [schema_version |-> "1.0",
     producer |-> result.metadata.producer,
     run |-> result.metadata.run,
     source |-> result.metadata.source,
     trace |-> <<[step |-> "normalization", tool |-> "living-doc-toolkit",
                  tool_version |-> "1.0.0", started_at |-> now, finished_at |-> now + 1,
                  warnings |-> result.warnings]>>,
     extensions |-> [ns \in {"collector-gh"} |->
                        [original_metadata |-> result.metadata.original_metadata]]]

\* An envelope that does not carry the warnings of the adapter.
AuditEnvelopeNoWarnings(result, now) ==
    [schema_version |-> "1.0",
     producer |-> result.metadata.producer,
     run |-> result.metadata.run,
     source |-> result.metadata.source,
     trace |-> <<[step |-> "normalization", tool |-> "living-doc-toolkit",
                  tool_version |-> "1.0.0", started_at |-> now, finished_at |-> now,
                  warnings |-> <<>>]>>,
     extensions |-> [ns \in {"collector-gh"} |->
                        [original_metadata |-> result.metadata.original_metadata]]]

\* _build_audit_envelope, now being the clock reading it takes.
AuditEnvelope(result, now) ==
    [schema_version |-> "1.0",
     producer |-> result.metadata.producer,
     run |-> result.metadata.run,
     source |-> result.metadata.source,
     trace |-> <<[step |-> "normalization", tool |-> "living-doc-toolkit",
                  tool_version |-> "1.0.0", started_at |-> now, finished_at |-> now,
                  warnings |-> result.warnings]>>,
     extensions |-> [ns \in {"collector-gh"} |->
                        [original_metadata |-> result.metadata.original_metadata]]]

\* MetaErrors without the source_set validator.
MetaErrorsNoSourceSet(document_title, document_version, source_set) ==
    (IF ~Truthy(document_title) THEN <<"document_title must be 1-200 chars">> ELSE <<>>)
    \o (IF ~Truthy(document_version) THEN <<"document_version must be 1-50 chars">> ELSE <<>>)

\* Meta validators: document_title and document_version of 1 or more
\* characters, source_set non-empty.
MetaErrors(document_title, document_version, source_set) ==
    (IF ~Truthy(document_title) THEN <<"document_title must be 1-200 chars">> ELSE <<>>)
    \o (IF ~Truthy(document_version) THEN <<"document_version must be 1-50 chars">> ELSE <<>>)
    \o (IF source_set = <<>> THEN <<"source_set must be non-empty">> ELSE <<>>)

\* build_pdf_ready: the document, or the ValidationError of the first model
\* whose construction fails.  t_audit and t_meta are the two clock readings.
build_pdf_ready(result, opts, t_audit, t_meta) ==
    LET items == result.items
        user_stories == [i \in 1..Len(items) |-> UserStory(items[i])]
        source_set == SourceSet(result.metadata.source.repositories)
        document_title == DocumentTitle(opts, source_set)
        document_version == DocumentVersion(opts)
        meta == [document_title |-> document_title.s,
                 document_version |-> document_version.s,
                 generated_at |-> t_meta,
                 source_set |-> source_set,
                 selection_summary |-> [total_items |-> Len(items), included_items |-> Len(items),
                                        excluded_items |-> 0],
                 run_context |-> RunContext(result.metadata.run),
                 audit |-> AuditEnvelope(result, t_audit)]
    IN IF \E i \in 1..Len(items) : ~TitleValid(items[i].title)
       THEN Raised("ValidationError", <<"title must be 1-500 chars">>)
       ELSE IF ~ProducerValid(result.metadata.producer)
       THEN Raised("ValidationError", <<"name must be non-empty">>)
       ELSE IF ~SourceValid(result.metadata.source)
       THEN Raised("ValidationError", <<"systems must be non-empty">>)
       ELSE IF MetaErrors(document_title, document_version, source_set) # <<>>
       THEN Raised("ValidationError", MetaErrors(document_title, document_version, source_set))
       ELSE Ok([schema_version |-> "1.0", meta |-> meta, content |-> [user_stories |-> user_stories]])

(***************************************************************************)
(* json_utils.py                                                           *)
(***************************************************************************)
\* The content of a destination that holds no complete document.
NoDoc == [schema_version |-> "none"]

\* read_json on an input file of the given kind.
read_json(file) ==
    CASE file.kind = "missing" -> Raised("FileIOError", <<"File not found">>)
      [] file.kind = "unreadable" -> Raised("FileIOError", <<"Permission denied reading">>)
      [] file.kind = "malformed" -> Raised("InvalidInputError", <<"Malformed JSON">>)
      [] file.kind = "undecodable" -> Raised("UnicodeDecodeError", <<"invalid start byte">>)
      [] OTHER -> Ok(file.payload)

\* write_json on a destination [dir, state, doc] whose medium behaves as
\* env says: the exception raised (or none) and the destination afterwards.
\*   mkdir_denied  the parent directory cannot be created
\*   open_denied   the file cannot be opened for writing
\*   disk_full     the file is opened (and truncated), json.dump fails
write_json(dest, data, env) ==
    CASE env = "mkdir_denied" /\ ~dest.dir ->
            [raised |-> Raised("FileIOError", <<"Permission denied writing">>), dest |-> dest]
      [] env = "open_denied" ->
            [raised |-> Raised("FileIOError", <<"Permission denied writing">>),
             dest |-> [dest EXCEPT !.dir = TRUE]]
      [] env = "disk_full" ->
            [raised |-> Raised("FileIOError", <<"Error writing to file">>),
             dest |-> [dir |-> TRUE, state |-> "partial", doc |-> NoDoc]]
      [] OTHER ->
            [raised |-> Ok("written"),
             dest |-> [dir |-> TRUE, state |-> "complete", doc |-> data]]

(***************************************************************************)
(* The bytes of the output file.  model_dump(mode="json") turns the        *)
(* document into a tree of dictionaries, lists and scalars, with the keys  *)
(* of each model in declaration order; json.dump writes the tree with      *)
(* sorted keys and an indentation of two spaces, and write_json adds the   *)
(* final newline.  The text is a sequence of tokens; a scalar is one token.*)
(***************************************************************************)
Leaf(v) == [t |-> "leaf", v |-> v]

Dict(items) == [t |-> "dict", items |-> items]

List(items) == [t |-> "list", items |-> items]

Leaves(seq) == List([i \in DOMAIN seq |-> Leaf(seq[i])])

\* The keys of a JSON object of the input that are present, in the order
\* of the input.
PresentKeys(node, keys) == SelectSeq(keys, LAMBDA k : node[k].t # "absent")

\* A JSON object of the input whose values are scalars, as a dictionary.
RawObject(node, keys) ==
    IF node.t # "obj"
    THEN Leaf(node)
    ELSE Dict([i \in DOMAIN PresentKeys(node, keys) |->
                 <<PresentKeys(node, keys)[i], Leaf(node[PresentKeys(node, keys)[i]])>>])

\* The raw metadata of the input, kept in the extensions.
RawMetadata(metadata_dict) ==
    Dict(<< <<"generator", RawObject(metadata_dict.generator, <<"name", "version", "build">>)>>,
            <<"run", RawObject(metadata_dict.run,
                               <<"run_id", "run_attempt", "actor", "workflow", "ref", "sha">>)>>,
            <<"source", IF metadata_dict.source.t = "absent"
                        THEN Leaf(metadata_dict.source)
                        ELSE Dict(<< <<"systems", Leaves(metadata_dict.source.systems)>>,
                                     <<"repositories", Leaves(metadata_dict.source.repositories)>> >>
                                  \o RawObject(metadata_dict.source,
                                               <<"organization", "enterprise">>).items)>> >>)

DumpWarning(w) ==
    Dict(<< <<"code", Leaf(w.code)>>, <<"message", Leaf(w.message)>>,
            <<"context", Leaf(w.context)>> >>)

DumpTraceStep(step) ==
    Dict(<< <<"step", Leaf(step.step)>>, <<"tool", Leaf(step.tool)>>,
            <<"tool_version", Leaf(step.tool_version)>>,
            <<"started_at", Leaf(step.started_at)>>,
            <<"finished_at", Leaf(step.finished_at)>>,
            <<"warnings", List([i \in DOMAIN step.warnings |-> DumpWarning(step.warnings[i])])>> >>)

DumpAudit(audit) ==
    Dict(<< <<"schema_version", Leaf(audit.schema_version)>>,
            <<"producer", Dict(<< <<"name", Leaf(audit.producer.name)>>,
                                  <<"version", Leaf(audit.producer.version)>>,
                                  <<"build", Leaf(audit.producer.build)>> >>)>>,
            <<"run", Dict(<< <<"run_id", Leaf(audit.run.run_id)>>,
                             <<"run_attempt", Leaf(audit.run.run_attempt)>>,
                             <<"actor", Leaf(audit.run.actor)>>,
                             <<"workflow", Leaf(audit.run.workflow)>>,
                             <<"ref", Leaf(audit.run.ref)>>,
                             <<"sha", Leaf(audit.run.sha)>> >>)>>,
            <<"source", Dict(<< <<"systems", Leaves(audit.source.systems)>>,
                                <<"repositories", Leaves(audit.source.repositories)>>,
                                <<"organization", Leaf(audit.source.organization)>>,
                                <<"enterprise", Leaf(audit.source.enterprise)>> >>)>>,
            <<"trace", List([i \in DOMAIN audit.trace |-> DumpTraceStep(audit.trace[i])])>>,
            <<"extensions",
              Dict(<< <<"collector-gh",
                        Dict(<< <<"original_metadata",
                                  RawMetadata(audit.extensions["collector-gh"].original_metadata)>> >>)>> >>)>> >>)

DumpRunContext(run_context) ==
    IF ~run_context.present
    THEN Leaf("null")
    ELSE Dict(<< <<"ci_run_id", Leaf(run_context.ci_run_id)>>,
                 <<"triggered_by", Leaf(run_context.triggered_by)>>,
                 <<"branch", Leaf(run_context.branch)>>,
                 <<"commit_sha", Leaf(run_context.commit_sha)>> >>)

DumpMeta(meta) ==
    Dict(<< <<"document_title", Leaf(meta.document_title)>>,
            <<"document_version", Leaf(meta.document_version)>>,
            <<"generated_at", Leaf(meta.generated_at)>>,
            <<"source_set", Leaves(meta.source_set)>>,
            <<"selection_summary",
              Dict(<< <<"total_items", Leaf(meta.selection_summary.total_items)>>,
                      <<"included_items", Leaf(meta.selection_summary.included_items)>>,
                      <<"excluded_items", Leaf(meta.selection_summary.excluded_items)>> >>)>>,
            <<"run_context", DumpRunContext(meta.run_context)>>,
            <<"audit", DumpAudit(meta.audit)>> >>)

SectionFields ==
    <<"description", "business_value", "preconditions", "acceptance_criteria",
      "user_guide", "connections", "last_edited">>

DumpUserStory(story) ==
    Dict(<< <<"id", Leaf(story.id)>>, <<"title", Leaf(story.title)>>,
            <<"state", Leaf(story.state)>>, <<"tags", Leaves(story.tags)>>,
            <<"url", Leaf(story.url)>>,
            <<"timestamps", Dict(<< <<"created", Leaf(story.timestamps.created)>>,
                                    <<"updated", Leaf(story.timestamps.updated)>> >>)>>,
            <<"sections", Dict([i \in DOMAIN SectionFields |->
                                  <<SectionFields[i], Leaf(story.sections[SectionFields[i]])>>])>> >>)

\* pdf_ready.model_dump(mode="json")
model_dump(doc) ==
    Dict(<< <<"schema_version", Leaf(doc.schema_version)>>,
            <<"meta", DumpMeta(doc.meta)>>,
            <<"content",
              Dict(<< <<"user_stories",
                        List([i \in DOMAIN doc.content.user_stories |->
                                 DumpUserStory(doc.content.user_stories[i])])>> >>)>> >>)

\* The keys of the output in the order Python compares strings.
KeyOrder ==
    <<"acceptance_criteria", "actor", "audit", "branch", "build", "business_value",
      "ci_run_id", "code", "collector-gh", "commit_sha", "connections", "content", "context",
      "created", "description", "document_title", "document_version", "enterprise",
      "excluded_items", "extensions", "finished_at", "generated_at", "generator", "id",
      "included_items", "last_edited", "message", "meta", "name", "organization",
      "original_metadata", "preconditions", "producer", "ref", "repositories", "run",
      "run_attempt", "run_context", "run_id", "schema_version", "sections",
      "selection_summary", "sha", "source", "source_set", "started_at", "state", "step",
      "systems", "tags", "timestamps", "title", "tool", "tool_version", "total_items",
      "trace", "triggered_by", "updated", "url", "user_guide", "user_stories", "version", "warnings",
      "workflow">>

Rank(key) == CHOOSE i \in DOMAIN KeyOrder : KeyOrder[i] = key

\* The items of a dictionary as they are, sort_keys=False.
ItemsAsGiven(items) == items

RanksOf(items) == [i \in DOMAIN items |-> Rank(items[i][1])]

\* The items put in the order of their ranks.
SortedBy(items, ranks) ==
    [p \in DOMAIN items |->
        items[CHOOSE i \in DOMAIN items :
                 Cardinality({j \in DOMAIN items : ranks[j] < ranks[i]}) = p - 1]]

\* The items of a dictionary by ascending key, sort_keys=True.
ItemsSorted(items) == CHOOSE sorted \in {SortedBy(items, ranks) : ranks \in {RanksOf(items)}} : TRUE

\* The text is a sequence of lines, each a sequence of tokens: a space,
\* punctuation, a key in quotes, a scalar value.
Space == <<"space", " ">>

Punct(p) == <<"punct", p>>

\* indent spaces per level of nesting.
Indentation(indent, level) == [i \in 1..(indent * level) |-> Space]

\* The lines of a value put after prefix on its first line and before
\* suffix on its last line.
FramedLines(prefix, lines, suffix) ==
    IF Len(lines) = 1
    THEN <<prefix \o lines[1] \o suffix>>
    ELSE <<prefix \o lines[1]>> \o SubSeq(lines, 2, Len(lines) - 1)
         \o <<lines[Len(lines)] \o suffix>>

Framed(prefix, value, suffix) ==
    CHOOSE framed \in {FramedLines(prefix, lines, suffix) : lines \in {value}} : TRUE

\* json.dump(data, f, indent=indent, sort_keys=True, ensure_ascii=False):
\* the lines of the text, the last one without a newline.
RECURSIVE json_dump(_, _, _)
RECURSIVE DumpItems(_, _, _, _)
RECURSIVE DumpElements(_, _, _, _)
DumpItems(items, i, indent, level) ==
    IF i > Len(items)
    THEN <<>>
    ELSE Framed(Indentation(indent, level) \o << <<"key", items[i][1]>>, Punct(": ") >>,
                json_dump(items[i][2], indent, level),
                IF i < Len(items) THEN <<Punct(",")>> ELSE <<>>)
         \o DumpItems(items, i + 1, indent, level)

DumpElements(items, i, indent, level) ==
    IF i > Len(items)
    THEN <<>>
    ELSE Framed(Indentation(indent, level),
                json_dump(items[i], indent, level),
                IF i < Len(items) THEN <<Punct(",")>> ELSE <<>>)
         \o DumpElements(items, i + 1, indent, level)

json_dump(node, indent, level) ==
    IF node.t = "leaf"
    THEN << << <<"value", node.v>> >> >>
    ELSE IF node.t = "dict"
    THEN IF node.items = <<>>
         THEN << <<Punct("{}")>> >>
         ELSE << <<Punct("{")>> >>
              \o (CHOOSE lines \in {DumpItems(items, 1, indent, level + 1) :
                                        items \in {ItemsSorted(node.items)}} : TRUE)
              \o << Indentation(indent, level) \o <<Punct("}")>> >>
    ELSE IF node.items = <<>>
         THEN << <<Punct("[]")>> >>
         ELSE << <<Punct("[")>> >> \o DumpElements(node.items, 1, indent, level + 1)
              \o << Indentation(indent, level) \o <<Punct("]")>> >>

\* The text write_json writes for data: json.dump(...), then f.write("\n").
\* newlines is the number of newline characters after the last line.
FileText(data) == [lines |-> json_dump(model_dump(data), 2, 0), newlines |-> 1]

(***************************************************************************)
(* Bodies given to the normalizer: None, or up to MaxChunks pieces of      *)
(* markdown one after the other.                                           *)
(***************************************************************************)
MaxChunks == 4

Chunks ==
    {<<NL>>, <<SP>>, <<"A", NL>>, <<"B">>,
     <<H2, SP, "Value", NL>>, <<H2, SP, "Summary", NL>>,
     <<H2, SP, "Custom", NL>>, <<H2, SP>>}

RECURSIVE TextsUpTo(_)
TextsUpTo(n) ==
    IF n = 0
    THEN {<<>>}
    ELSE LET prev == TextsUpTo(n - 1)
         IN prev \cup {b \o c : b \in prev, c \in Chunks}

Bodies == {None} \cup {Str(t) : t \in TextsUpTo(MaxChunks)}

(***************************************************************************)
(* service.py: run_service                                                 *)
(***************************************************************************)
\* The readings the clock can give.
MaxClock == 2

Clock == 1..MaxClock

EXIT_CODES ==
    [InvalidInputError |-> 1, AdapterError |-> 2, SchemaValidationError |-> 3,
     NormalizationError |-> 4, FileIOError |-> 5]

ToolkitErrors == DOMAIN EXIT_CODES

\* source_option = options.get("source", "auto")
SourceOption(opts) == IF "source" \in DOMAIN opts THEN opts.source ELSE "auto"

\* Adapter selection that consults the detector for every source option.
select_adapter_detect_always(input, opts) ==
    IF SourceOption(opts) \in {"auto", "collector-gh"}
    THEN IF can_handle(input).value
         THEN Ok("collector-gh")
         ELSE Raised("AdapterError", <<"Input does not match collector-gh format">>)
    ELSE Raised("AdapterError", <<"Unsupported adapter: ", SourceOption(opts)>>)

\* Step 2: the adapter chosen for the input, or AdapterError.
select_adapter(input, opts) ==
    IF SourceOption(opts) = "auto"
    THEN IF can_handle(input).value
         THEN Ok("collector-gh")
         ELSE Raised("AdapterError", <<"Input does not match collector-gh format">>)
    ELSE IF SourceOption(opts) = "collector-gh"
    THEN Ok("collector-gh")
    ELSE Raised("AdapterError", <<"Unsupported adapter: ", SourceOption(opts)>>)

\* except Exception as e: raise NormalizationError(...) around parse.
ParseHandler(exc) == Raised("NormalizationError", <<"Failed to parse input: ">> \o exc.msg)

\* except Exception as e: raise NormalizationError(...) around build_pdf_ready.
BuildHandler(exc) == Raised("NormalizationError", <<"Failed to build PDF-ready output: ">> \o exc.msg)

\* The except clauses of run_service with FileIOError let through as well.
OuterHandlerFileIO(exc) ==
    IF exc.kind \in {"InvalidInputError", "AdapterError", "NormalizationError", "FileIOError"}
    THEN exc
    ELSE Raised("NormalizationError", <<"Unexpected error during normalization: ">> \o exc.msg)

\* The two except clauses that close run_service.
OuterHandler(exc) ==
    IF exc.kind \in {"InvalidInputError", "AdapterError", "NormalizationError"}
    THEN exc
    ELSE Raised("NormalizationError", <<"Unexpected error during normalization: ">> \o exc.msg)

\* The exception that leaves run_service when exc is raised inside a stage.
Escaping(stage, exc) ==
    CASE stage = "parse" -> OuterHandler(ParseHandler(exc))
      [] stage = "build" -> OuterHandler(BuildHandler(exc))
      [] OTHER -> OuterHandler(exc)

STAGES == <<"load", "detect", "parse", "build", "write">>

StageIndex(stage) == CHOOSE i \in 1..Len(STAGES) : STAGES[i] = stage

\* AfterStage with a retry: a stage that raised is entered again.
AfterStageRetry(stage, ok) ==
    IF ~ok THEN stage
    ELSE IF StageIndex(stage) = Len(STAGES) THEN "done"
    ELSE STAGES[StageIndex(stage) + 1]

\* Where control goes when a stage ends: to the next statement of the try
\* block, or out of run_service when the stage raised.
AfterStage(stage, ok) ==
    IF ~ok THEN "failed"
    ELSE IF StageIndex(stage) = Len(STAGES) THEN "done"
    ELSE STAGES[StageIndex(stage) + 1]

Runs == {1, 2}

Unset == [set |-> FALSE]

Val(v) == [set |-> TRUE, v |-> v]

NoError == [kind |-> "none", msg |-> <<>>, cause |-> "none", stage |-> "none"]

\* The exception exc raised inside stage leaves run r.
Fail(r, stage, exc) ==
    /\ pc' = [pc EXCEPT ![r] = AfterStage(stage, FALSE)]
    /\ error' = [error EXCEPT ![r] =
                    [kind |-> Escaping(stage, exc).kind, msg |-> Escaping(stage, exc).msg,
                     cause |-> exc.kind, stage |-> stage]]

Enter(r, stage) ==
    /\ pc[r] = stage
    /\ trace' = [trace EXCEPT ![r] = Append(@, stage)]

\* options.get("verbose", False)
Verbose(opts) == IF "verbose" \in DOMAIN opts THEN opts.verbose ELSE FALSE

\* The logger "living_doc" as the logging module creates it.
UnconfiguredLogger == [level |-> "NOTSET", handlers |-> <<>>, propagate |-> TRUE]

\* setup_logging: the level is set, the handlers are cleared and one
\* console handler of that level is added, propagation is switched off.
setup_logging(verbose) ==
    [level |-> IF verbose THEN "DEBUG" ELSE "INFO",
     handlers |-> << [stream |-> "stderr", level |-> IF verbose THEN "DEBUG" ELSE "INFO",
                      format |-> "[{levelname}] {message}"] >>,
     propagate |-> FALSE]

\* logger = setup_logging(verbose=verbose), then
\* step 1: payload = read_json(input_path)
Load(r) ==
    /\ Enter(r, "load")
    /\ logger' = setup_logging(Verbose(options[r]))
    /\ LET res == read_json(infile[r])
       IN IF res.ok
          THEN /\ payload' = [payload EXCEPT ![r] = Val(res.value)]
               /\ pc' = [pc EXCEPT ![r] = AfterStage("load", TRUE)]
               /\ UNCHANGED error
          ELSE /\ Fail(r, "load", res)
               /\ UNCHANGED payload
    /\ UNCHANGED <<infile, options, outenv, outfile, outfile0, adapter_result, pdf_ready, writes>>
    /\ UNCHANGED <<norm_vars, compat_vars, adapter_vars, model_vars>>

\* Step 2: adapter selection
Detect(r) ==
    /\ Enter(r, "detect")
    /\ LET res == select_adapter(payload[r].v, options[r])
       IN IF res.ok
          THEN /\ pc' = [pc EXCEPT ![r] = AfterStage("detect", TRUE)]
               /\ UNCHANGED error
          ELSE Fail(r, "detect", res)
    /\ UNCHANGED <<infile, options, outenv, outfile, outfile0, payload, adapter_result, pdf_ready, writes, logger>>
    /\ UNCHANGED <<norm_vars, compat_vars, adapter_vars, model_vars>>

\* Step 3: adapter_result = parse(payload)
ParseStage(r) ==
    /\ Enter(r, "parse")
    /\ LET res == parse(payload[r].v)
       IN IF res.ok
          THEN /\ adapter_result' = [adapter_result EXCEPT ![r] = Val(res.value)]
               /\ pc' = [pc EXCEPT ![r] = AfterStage("parse", TRUE)]
               /\ UNCHANGED error
          ELSE /\ Fail(r, "parse", res)
               /\ UNCHANGED adapter_result
    /\ UNCHANGED <<infile, options, outenv, outfile, outfile0, payload, pdf_ready, writes, logger>>
    /\ UNCHANGED <<norm_vars, compat_vars, adapter_vars, model_vars>>

\* Steps 4 and 5: pdf_ready = build_pdf_ready(adapter_result, options); the
\* clock is read twice, for the trace step and then for generated_at.
BuildStage(r) ==
    /\ Enter(r, "build")
    /\ \E t_audit \in Clock : \E t_meta \in Clock :
          /\ t_audit <= t_meta
          /\ LET res == build_pdf_ready(adapter_result[r].v, options[r], t_audit, t_meta)
             IN IF res.ok
                THEN /\ pdf_ready' = [pdf_ready EXCEPT ![r] = Val(res.value)]
                     /\ pc' = [pc EXCEPT ![r] = AfterStage("build", TRUE)]
                     /\ UNCHANGED error
                ELSE /\ Fail(r, "build", res)
                     /\ UNCHANGED pdf_ready
    /\ UNCHANGED <<infile, options, outenv, outfile, outfile0, payload, adapter_result, writes, logger>>
    /\ UNCHANGED <<norm_vars, compat_vars, adapter_vars, model_vars>>

\* Step 6: write_json(output_path, pdf_ready.model_dump(mode="json"))
WriteStage(r) ==
    /\ Enter(r, "write")
    /\ writes' = [writes EXCEPT ![r] = @ + 1]
    /\ LET res == write_json(outfile[r], pdf_ready[r].v, outenv[r])
       IN /\ outfile' = [outfile EXCEPT ![r] = res.dest]
          /\ IF res.raised.ok
             THEN /\ pc' = [pc EXCEPT ![r] = AfterStage("write", TRUE)]
                  /\ UNCHANGED error
             ELSE Fail(r, "write", res.raised)
    /\ UNCHANGED <<infile, options, outenv, outfile0, payload, adapter_result, pdf_ready, logger>>
    /\ UNCHANGED <<norm_vars, compat_vars, adapter_vars, model_vars>>

(***************************************************************************)
(* Inputs of run_service: input files, options and destinations.           *)
(***************************************************************************)
BaseIssue ==
    [object |-> TRUE, number |-> JNum(1), title |-> JStr("Story"), state |-> JStr("open"),
     labels |-> [t |-> "list", items |-> <<"doc">>],
     html_url |-> JStr("https://github.com/owner/repo/issues/1"),
     created_at |-> JStr("2026-01-01T00:00:00Z"), updated_at |-> JStr("2026-01-02T00:00:00Z"),
     body |-> Str(<<H2, SP, "Value", NL, "A">>)]

BasePayload ==
    [object |-> TRUE,
     metadata |->
        [t |-> "obj",
         generator |-> [t |-> "obj", name |-> JStr(GH_NAME),
                        version |-> JVer(VersionOf(<<1, 0, 0>>)), build |-> Absent],
         run |-> [t |-> "obj", run_id |-> JStr("42"), run_attempt |-> JStr("1"),
                  actor |-> JStr("dev"), workflow |-> JStr("ci"),
                  ref |-> JStr("refs/heads/main"), sha |-> JStr("abc")],
         source |-> [t |-> "obj", systems |-> <<"GitHub">>,
                     repositories |-> << <<"owner/repo">> >>,
                     organization |-> JStr("owner"), enterprise |-> Absent]],
     issues |-> [t |-> "list", items |-> <<BaseIssue>>]]

\* The payloads the runs are given: the well-formed one and the ones that
\* differ from it in one place.
Payloads ==
    {BasePayload,
     [BasePayload EXCEPT !.object = FALSE],
     [BasePayload EXCEPT !.metadata.generator.name = JStr("unknown-adapter")],
     [BasePayload EXCEPT !.metadata.generator.name = Absent],
     [BasePayload EXCEPT !.metadata.generator.version = Absent],
     [BasePayload EXCEPT !.metadata.generator.version = JVer(EmptyString)],
     [BasePayload EXCEPT !.metadata.source.repositories = <<>>],
     [BasePayload EXCEPT !.metadata.source.systems = <<>>],
     [BasePayload EXCEPT !.metadata.run.run_id = Absent],
     [BasePayload EXCEPT !.issues.items = <<>>],
     [BasePayload EXCEPT !.issues.items = <<BaseIssue, [BaseIssue EXCEPT !.number = JNum(2), !.title = Absent]>>],
     [BasePayload EXCEPT !.issues.items = <<[BaseIssue EXCEPT !.title = JStr(""), !.body = None]>>]}

\* Version strings a producer may declare: compatible, out of range, and
\* not a version of the grammar the check uses.
SampleVersions ==
    {VersionOf(<<1, 0, 0>>), VersionOf(<<2, 0, 0>>),
     [rel |-> <<1, 2, 0>>, suffix |-> "-foo", local |-> FALSE, junk |-> FALSE]}

HasVersionString(p) ==
    /\ p.object
    /\ p.metadata.generator.version.t = "str"
    /\ p.metadata.generator.version.s # EmptyString

WithVersion(p, v) == [p EXCEPT !.metadata.generator.version = JVer(v)]

JsonFile(p) == [kind |-> "json", payload |-> p]

InputFiles ==
    {[kind |-> k] : k \in {"missing", "unreadable", "malformed", "undecodable"}}
    \cup {JsonFile(p) : p \in Payloads}

\* The input files that differ from file at most in the value of
\* metadata.generator.version, a non-empty string in both.
TwinsOf(file) ==
    IF file.kind = "json" /\ HasVersionString(file.payload)
    THEN {JsonFile(WithVersion(file.payload, v)) : v \in SampleVersions}
    ELSE {file}

OptionsSet ==
    [source : {"auto", "collector-gh", "jira"},
     document_title : {None, Str(<<"Handbook">>)},
     document_version : {[given |-> FALSE, value |-> None]}]
    \cup [document_title : {None, Str(<<"Handbook">>)},
          document_version : {[given |-> FALSE, value |-> None]}]

\* A destination: whether the parent directory exists, and the file in it.
Destinations ==
    {[dir |-> TRUE, state |-> "old", doc |-> NoDoc],
     [dir |-> TRUE, state |-> "absent", doc |-> NoDoc],
     [dir |-> FALSE, state |-> "absent", doc |-> NoDoc]}

Media == {"ok", "mkdir_denied", "open_denied", "disk_full"}

PerRun(a, b) == [r \in Runs |-> IF r = 1 THEN a ELSE b]

ServiceIdle ==
    /\ pc = PerRun("idle", "idle")
    /\ infile = PerRun([kind |-> "missing"], [kind |-> "missing"])
    /\ options = PerRun([source |-> "auto"], [source |-> "auto"])
    /\ outenv = PerRun("ok", "ok")
    /\ outfile = PerRun(NoDoc, NoDoc)
    /\ outfile0 = PerRun(NoDoc, NoDoc)
    /\ payload = PerRun(Unset, Unset)
    /\ adapter_result = PerRun(Unset, Unset)
    /\ pdf_ready = PerRun(Unset, Unset)
    /\ error = PerRun(NoError, NoError)
    /\ trace = PerRun(<<>>, <<>>)
    /\ writes = PerRun(0, 0)
    /\ logger = UnconfiguredLogger

\* The outcome of a call that has not been made.
NotCalled == [ok |-> FALSE, kind |-> "not called", msg |-> <<>>]

AdapterIdle ==
    /\ a_payload = BasePayload
    /\ a_options = [source |-> "auto"]
    /\ a_can_handle = NotCalled
    /\ a_version = NotCalled
    /\ a_parsed = NotCalled
    /\ a_built = NotCalled
    /\ a_pc = "idle"

ModelIdle ==
    /\ m_model = "PdfReadyV1"
    /\ m_data = {}
    /\ m_result = NotCalled
    /\ m_pc = "idle"

\* Two invocations of run_service.  Both are given the same options and
\* destination, and input files that differ at most in the producer version
\* of the payload.
Init ==
    /\ pc = PerRun("load", "load")
    /\ \E f \in InputFiles : \E f1 \in TwinsOf(f) : \E f2 \in TwinsOf(f) : infile = PerRun(f1, f2)
    /\ \E o \in OptionsSet : options = PerRun(o, o)
    /\ \E m \in Media : \E d \in Destinations :
          /\ m = "mkdir_denied" => ~d.dir
          /\ outenv = PerRun(m, m)
          /\ outfile = PerRun(d, d)
          /\ outfile0 = PerRun(d, d)
    /\ payload = PerRun(Unset, Unset)
    /\ adapter_result = PerRun(Unset, Unset)
    /\ pdf_ready = PerRun(Unset, Unset)
    /\ error = PerRun(NoError, NoError)
    /\ trace = PerRun(<<>>, <<>>)
    /\ writes = PerRun(0, 0)
    /\ logger = UnconfiguredLogger
    /\ body = None
    /\ norm_result = NoResult
    /\ norm_pc = "idle"
    /\ version = EmptyString
    /\ compat_result = NoWarnings
    /\ compat_pc = "idle"
    /\ AdapterIdle
    /\ ModelIdle

Next ==
    \/ \E r \in Runs : Load(r)
    \/ \E r \in Runs : Detect(r)
    \/ \E r \in Runs : ParseStage(r)
    \/ \E r \in Runs : BuildStage(r)
    \/ \E r \in Runs : WriteStage(r)

Spec == Init /\ [][Next]_vars

\* Two invocations of run_service on the same input file, with the same
\* options, each on a destination of its own kind of medium.
TwinPayloads ==
    {BasePayload,
     WithVersion(BasePayload, VersionOf(<<2, 0, 0>>)),
     [BasePayload EXCEPT !.metadata.run.run_id = Absent],
     [BasePayload EXCEPT !.issues.items = <<>>],
     [BasePayload EXCEPT !.issues.items = <<BaseIssue, [BaseIssue EXCEPT !.number = JNum(2)]>>],
     [BasePayload EXCEPT !.metadata.source.systems = <<>>]}

TwinInit ==
    /\ pc = PerRun("load", "load")
    /\ \E p \in TwinPayloads : infile = PerRun(JsonFile(p), JsonFile(p))
    /\ \E o \in {x \in OptionsSet : SourceOption(x) = "auto"} : options = PerRun(o, o)
    /\ \E m \in {"ok", "disk_full"} :
          /\ outenv = PerRun(m, m)
          /\ outfile = PerRun([dir |-> TRUE, state |-> "absent", doc |-> NoDoc],
                              [dir |-> TRUE, state |-> "absent", doc |-> NoDoc])
          /\ outfile0 = outfile
    /\ payload = PerRun(Unset, Unset)
    /\ adapter_result = PerRun(Unset, Unset)
    /\ pdf_ready = PerRun(Unset, Unset)
    /\ error = PerRun(NoError, NoError)
    /\ trace = PerRun(<<>>, <<>>)
    /\ writes = PerRun(0, 0)
    /\ logger = UnconfiguredLogger
    /\ body = None
    /\ norm_result = NoResult
    /\ norm_pc = "idle"
    /\ version = EmptyString
    /\ compat_result = NoWarnings
    /\ compat_pc = "idle"
    /\ AdapterIdle
    /\ ModelIdle

TwinSpec == TwinInit /\ [][Next]_vars

\* Two overlapping invocations of run_service in one process, each with an
\* input file, options and a destination of its own.
ConcurrentFiles ==
    {[kind |-> "missing"], JsonFile(BasePayload),
     JsonFile([BasePayload EXCEPT !.metadata.generator.name = JStr("unknown-adapter")]),
     JsonFile([BasePayload EXCEPT !.issues.items = <<>>])}

ConcurrentOptions ==
    [source : {"auto"}, document_title : {None},
     document_version : {[given |-> FALSE, value |-> None]}, verbose : BOOLEAN]
    \cup [source : {"auto"}, document_title : {None},
          document_version : {[given |-> FALSE, value |-> None]}]

ConcurrentInit ==
    /\ pc = PerRun("load", "load")
    /\ \E f1 \in ConcurrentFiles : \E f2 \in ConcurrentFiles : infile = PerRun(f1, f2)
    /\ \E o1 \in ConcurrentOptions : \E o2 \in ConcurrentOptions : options = PerRun(o1, o2)
    /\ \E m1 \in {"ok", "open_denied"} : \E m2 \in {"ok", "open_denied"} : outenv = PerRun(m1, m2)
    /\ outfile = PerRun([dir |-> TRUE, state |-> "absent", doc |-> NoDoc],
                        [dir |-> TRUE, state |-> "old", doc |-> NoDoc])
    /\ outfile0 = outfile
    /\ payload = PerRun(Unset, Unset)
    /\ adapter_result = PerRun(Unset, Unset)
    /\ pdf_ready = PerRun(Unset, Unset)
    /\ error = PerRun(NoError, NoError)
    /\ trace = PerRun(<<>>, <<>>)
    /\ writes = PerRun(0, 0)
    /\ logger = UnconfiguredLogger
    /\ body = None
    /\ norm_result = NoResult
    /\ norm_pc = "idle"
    /\ version = EmptyString
    /\ compat_result = NoWarnings
    /\ compat_pc = "idle"
    /\ AdapterIdle
    /\ ModelIdle

ConcurrentSpec == ConcurrentInit /\ [][Next]_vars

CompatInit ==
    /\ version \in VersionStrings
    /\ compat_result = NoWarnings
    /\ compat_pc = "call"
    /\ body = None
    /\ norm_result = NoResult
    /\ norm_pc = "idle"
    /\ ServiceIdle
    /\ AdapterIdle
    /\ ModelIdle

\* One call check_compatibility(version).
CheckCompat ==
    /\ compat_pc = "call"
    /\ compat_result' = check_compatibility(version)
    /\ compat_pc' = "returned"
    /\ UNCHANGED <<version, norm_vars, service_vars, adapter_vars, model_vars>>

NormInit ==
    /\ body \in Bodies
    /\ norm_result = NoResult
    /\ norm_pc = "call"
    /\ version = EmptyString
    /\ compat_result = NoWarnings
    /\ compat_pc = "idle"
    /\ ServiceIdle
    /\ AdapterIdle
    /\ ModelIdle

\* One call normalize_sections(body).
Normalize ==
    /\ norm_pc = "call"
    /\ norm_result' = normalize_sections(body)
    /\ norm_pc' = "returned"
    /\ UNCHANGED <<body, compat_vars, service_vars, adapter_vars, model_vars>>

NormNext == Normalize

NormSpec == NormInit /\ [][NormNext]_vars

CompatNext == CheckCompat

CompatSpec == CompatInit /\ [][CompatNext]_vars

(***************************************************************************)
(* The adapter and the builder called one after the other on one payload:  *)
(* can_handle, extract_version, parse, and build_pdf_ready on the result   *)
(* of parse.                                                               *)
(***************************************************************************)
MaxIssues == 2

\* Raw issues with the given number: the well-formed one and the ones that
\* differ from it in one place.
IssueShapes(n) ==
    LET issue == [BaseIssue EXCEPT !.number = JNum(n)]
    IN {issue,
        [issue EXCEPT !.number = Absent],
        [issue EXCEPT !.number = JNull],
        [issue EXCEPT !.number = JStr("abc")],
        [issue EXCEPT !.title = Absent],
        [issue EXCEPT !.title = JNum(7)],
        [issue EXCEPT !.title = JStr("")],
        [issue EXCEPT !.updated_at = Absent],
        [issue EXCEPT !.labels = Absent, !.body = None],
        [issue EXCEPT !.object = FALSE]}

\* Lists of raw issues, the issue at position i carrying the number i.
RECURSIVE IssueLists(_)
IssueLists(n) ==
    IF n = 0
    THEN {<<>>}
    ELSE IssueLists(n - 1)
         \cup {Append(l, i) : l \in {k \in IssueLists(n - 1) : Len(k) = n - 1}, i \in IssueShapes(n)}

\* Payloads that differ from the well-formed one in the metadata.
MetadataShapes ==
    {[BasePayload EXCEPT !.object = FALSE],
     [BasePayload EXCEPT !.metadata = Absent],
     [BasePayload EXCEPT !.metadata = JNull],
     [BasePayload EXCEPT !.metadata = JStr("text")],
     [BasePayload EXCEPT !.metadata.generator = Absent],
     [BasePayload EXCEPT !.metadata.generator = JNull],
     [BasePayload EXCEPT !.metadata.generator = JNum(1)],
     [BasePayload EXCEPT !.metadata.generator.name = Absent],
     [BasePayload EXCEPT !.metadata.generator.name = JNull],
     [BasePayload EXCEPT !.metadata.generator.name = JStr("")],
     [BasePayload EXCEPT !.metadata.generator.name = JStr("unknown-adapter")],
     [BasePayload EXCEPT !.metadata.generator.version = Absent],
     [BasePayload EXCEPT !.metadata.generator.version = JNull],
     [BasePayload EXCEPT !.metadata.generator.version = JVer(EmptyString)],
     [BasePayload EXCEPT !.metadata.generator.version = JNum(0)],
     [BasePayload EXCEPT !.metadata.generator.version = JNum(5)],
     [BasePayload EXCEPT !.metadata.generator.build = JStr("b1")],
     [BasePayload EXCEPT !.metadata.generator.build = JNum(1)],
     [BasePayload EXCEPT !.metadata.run = Absent],
     [BasePayload EXCEPT !.metadata.run = JNull],
     [BasePayload EXCEPT !.metadata.run.actor = JNum(1)],
     [BasePayload EXCEPT !.metadata.run.run_id = JStr("")],
     [BasePayload EXCEPT !.metadata.run.run_id = JNull, !.metadata.run.actor = Absent],
     [BasePayload EXCEPT !.metadata.source = Absent],
     [BasePayload EXCEPT !.metadata.source = JNull],
     [BasePayload EXCEPT !.metadata.source.systems = <<>>],
     [BasePayload EXCEPT !.metadata.source.repositories = <<>>],
     [BasePayload EXCEPT !.metadata.source.repositories = << <<"github:", "owner/repo">> >>],
     [BasePayload EXCEPT !.metadata.source.repositories = << <<"owner/repo">>, <<"owner/other">> >>],
     [BasePayload EXCEPT !.metadata.source.repositories = << <<"mirror/", "github:", "tools">> >>],
     [BasePayload EXCEPT !.issues = Absent],
     [BasePayload EXCEPT !.issues = JNull]}

AdapterPayloads ==
    MetadataShapes
    \cup {WithVersion(BasePayload, v) : v \in SampleVersions}
    \cup {[p EXCEPT !.issues.items = l] :
            p \in {BasePayload, [BasePayload EXCEPT !.metadata.source.repositories = <<>>]},
            l \in IssueLists(MaxIssues)}

AdapterInit ==
    /\ a_payload \in AdapterPayloads
    /\ a_options \in {o \in OptionsSet : SourceOption(o) = "auto"}
    /\ a_can_handle = NotCalled
    /\ a_version = NotCalled
    /\ a_parsed = NotCalled
    /\ a_built = NotCalled
    /\ a_pc = "can_handle"
    /\ ModelIdle
    /\ body = None
    /\ norm_result = NoResult
    /\ norm_pc = "idle"
    /\ version = EmptyString
    /\ compat_result = NoWarnings
    /\ compat_pc = "idle"
    /\ ServiceIdle

CallCanHandle ==
    /\ a_pc = "can_handle"
    /\ a_can_handle' = can_handle(a_payload)
    /\ a_pc' = "extract_version"
    /\ UNCHANGED <<a_payload, a_options, a_version, a_parsed, a_built>>
    /\ UNCHANGED <<service_vars, norm_vars, compat_vars, model_vars>>

CallExtractVersion ==
    /\ a_pc = "extract_version"
    /\ a_version' = extract_version(a_payload)
    /\ a_pc' = "parse"
    /\ UNCHANGED <<a_payload, a_options, a_can_handle, a_parsed, a_built>>
    /\ UNCHANGED <<service_vars, norm_vars, compat_vars, model_vars>>

CallParse ==
    /\ a_pc = "parse"
    /\ a_parsed' = parse(a_payload)
    /\ a_pc' = IF parse(a_payload).ok THEN "build" ELSE "end"
    /\ UNCHANGED <<a_payload, a_options, a_can_handle, a_version, a_built>>
    /\ UNCHANGED <<service_vars, norm_vars, compat_vars, model_vars>>

CallBuild ==
    /\ a_pc = "build"
    /\ \E t_audit \in Clock : \E t_meta \in Clock :
          /\ t_audit <= t_meta
          /\ a_built' = build_pdf_ready(a_parsed.value, a_options, t_audit, t_meta)
    /\ a_pc' = "end"
    /\ UNCHANGED <<a_payload, a_options, a_can_handle, a_version, a_parsed>>
    /\ UNCHANGED <<service_vars, norm_vars, compat_vars, model_vars>>

AdapterNext == CallCanHandle \/ CallExtractVersion \/ CallParse \/ CallBuild

AdapterSpec == AdapterInit /\ [][AdapterNext]_vars

(***************************************************************************)
(* The pydantic models of the pipeline and their construction.  A model is *)
(* described by the fields it declares, those without a default, and how   *)
(* its configuration treats a field it does not declare.                   *)
(***************************************************************************)
\* A model with model_config = {"extra": "forbid", "strict": True}.
Forbidding(fields, required) == [fields |-> fields, required |-> required, extra |-> "forbid"]

\* A model without model_config: pydantic's default is extra = "ignore".
Unconfigured(fields, required) == [fields |-> fields, required |-> required, extra |-> "ignore"]

\* adapters/collector_gh models.py
AdapterModels ==
    [CompatibilityWarning |-> Unconfigured({"code", "message", "context"}, {"code", "message"}),
     AdapterItemTimestamps |-> Unconfigured({"created", "updated"}, {"created", "updated"}),
     AdapterItem |->
        Unconfigured({"id", "title", "state", "tags", "url", "timestamps", "body"},
                     {"id", "title", "state", "tags", "url", "timestamps"}),
     AdapterMetadataProducer |->
        Unconfigured({"name", "version", "build"}, {"name", "version", "build"}),
     AdapterMetadataRun |->
        Unconfigured({"run_id", "run_attempt", "actor", "workflow", "ref", "sha"},
                     {"run_id", "run_attempt", "actor", "workflow", "ref", "sha"}),
     AdapterMetadataSource |->
        Unconfigured({"systems", "repositories", "organization", "enterprise"},
                     {"systems", "repositories", "organization", "enterprise"}),
     AdapterMetadata |->
        Unconfigured({"producer", "run", "source", "original_metadata"},
                     {"producer", "run", "source", "original_metadata"}),
     AdapterResult |->
        Unconfigured({"items", "metadata", "warnings"}, {"items", "metadata", "warnings"})]

\* datasets_pdf pdf_ready/v1/models.py
PdfReadyModels ==
    [Timestamps |-> Forbidding({"created", "updated"}, {"created", "updated"}),
     Sections |->
        Forbidding({"description", "business_value", "preconditions", "acceptance_criteria",
                    "user_guide", "connections", "last_edited"}, {}),
     UserStory |->
        Forbidding({"id", "title", "state", "tags", "url", "timestamps", "sections"},
                   {"id", "title", "state", "tags", "url", "timestamps", "sections"}),
     Content |-> Forbidding({"user_stories"}, {"user_stories"}),
     RunContext |-> Forbidding({"ci_run_id", "triggered_by", "branch", "commit_sha"}, {}),
     SelectionSummary |->
        Forbidding({"total_items", "included_items", "excluded_items"},
                   {"total_items", "included_items", "excluded_items"}),
     Meta |->
        Forbidding({"document_title", "document_version", "generated_at", "source_set",
                    "selection_summary", "run_context", "audit"},
                   {"document_title", "document_version", "generated_at", "source_set",
                    "selection_summary"}),
     PdfReadyV1 |->
        Forbidding({"schema_version", "meta", "content"}, {"schema_version", "meta", "content"})]

\* datasets_pdf audit/v1/models.py
AuditModels ==
    [AuditWarning |-> Forbidding({"code", "message", "context"}, {"code", "message"}),
     TraceStep |->
        Forbidding({"step", "tool", "tool_version", "started_at", "finished_at", "warnings"},
                   {"step", "tool", "tool_version"}),
     Source |->
        Forbidding({"systems", "repositories", "organization", "enterprise"}, {"systems"}),
     Run |-> Forbidding({"run_id", "run_attempt", "actor", "workflow", "ref", "sha"}, {}),
     Producer |-> Forbidding({"name", "version", "build"}, {"name", "version"}),
     AuditEnvelopeV1 |->
        Forbidding({"schema_version", "producer", "run", "source", "trace", "extensions"},
                   {"schema_version", "producer", "run", "source", "trace"})]

ModelNames == DOMAIN AdapterModels \cup DOMAIN PdfReadyModels \cup DOMAIN AuditModels

Schema(model) ==
    IF model \in DOMAIN AdapterModels THEN AdapterModels[model]
    ELSE IF model \in DOMAIN PdfReadyModels THEN PdfReadyModels[model]
    ELSE AuditModels[model]

\* Validation of the keys given to a model, by Model(**data) or by
\* Model.model_validate(data): the fields of the instance, or
\* ValidationError.  An undeclared key is an error for extra = "forbid" and
\* is dropped for extra = "ignore".
ValidateFields(schema, data) ==
    IF schema.required \ data # {}
    THEN Raised("ValidationError", <<"Field required">>)
    ELSE IF schema.extra = "forbid" /\ data \ schema.fields # {}
    THEN Raised("ValidationError", <<"Extra inputs are not permitted">>)
    ELSE Ok(schema.fields)

\* Keys that no model declares.
UndeclaredFields == {"comment", "x_extra"}

\* The keys given to a model: all its fields or only the required ones,
\* possibly one required field short, with or without undeclared keys.
DataSets(model) ==
    {base \cup extra :
        base \in {Schema(model).fields, Schema(model).required}
                 \cup {Schema(model).required \ {f} : f \in Schema(model).required},
        extra \in SUBSET UndeclaredFields}

\* The models from_json deserializes (the serializer modules).
Deserialized == {"PdfReadyV1", "AuditEnvelopeV1"}

ModelInit ==
    /\ m_model \in ModelNames
    /\ m_data \in DataSets(m_model)
    /\ m_result = NotCalled
    /\ m_pc = "start"
    /\ ServiceIdle
    /\ AdapterIdle
    /\ body = None
    /\ norm_result = NoResult
    /\ norm_pc = "idle"
    /\ version = EmptyString
    /\ compat_result = NoWarnings
    /\ compat_pc = "idle"

\* Model(**data)
Construct ==
    /\ m_pc = "start"
    /\ m_result' = ValidateFields(Schema(m_model), m_data)
    /\ m_pc' = "constructed"
    /\ UNCHANGED <<m_model, m_data>>
    /\ UNCHANGED <<service_vars, norm_vars, compat_vars, adapter_vars>>

\* from_json: Model.model_validate(json.loads(json_str))
FromJson ==
    /\ m_pc = "start"
    /\ m_model \in Deserialized
    /\ m_result' = ValidateFields(Schema(m_model), m_data)
    /\ m_pc' = "deserialized"
    /\ UNCHANGED <<m_model, m_data>>
    /\ UNCHANGED <<service_vars, norm_vars, compat_vars, adapter_vars>>

ModelNext == Construct \/ FromJson

ModelSpec == ModelInit /\ [][ModelNext]_vars

(***************************************************************************)
(* Properties of run_service (specification Spec)                          *)
(***************************************************************************)
Ended(r) == pc[r] \in {"done", "failed"}

IsPrefix(a, b) == Len(a) <= Len(b) /\ a = SubSeq(b, 1, Len(a))

\* C1: an error of kind k raised by a stage never leaves run_service under
\* a higher-numbered kind; in particular an AdapterError raised by the
\* adapter parser leaves run_service as an AdapterError (exit code 2).
C1_NeverHigherKind ==
    \A r \in Runs :
        (pc[r] = "failed" /\ error[r].cause \in ToolkitErrors)
            => /\ EXIT_CODES[error[r].kind] <= EXIT_CODES[error[r].cause]
               /\ (error[r].stage = "parse" /\ error[r].cause = "AdapterError")
                      => error[r].kind = "AdapterError"

\* C2: a run whose input file is missing or unreadable fails with
\* InvalidInputError, the kind raised for malformed JSON.
C2_MissingInputIsInvalidInput ==
    \A r \in Runs :
        (pc[r] = "failed" /\ infile[r].kind \in {"missing", "unreadable"})
            => error[r].kind = "InvalidInputError"

\* C3: a run whose document was built and validated and whose write fails,
\* fails with FileIOError (exit code 5).
C3_WriteFailureIsFileIOError ==
    \A r \in Runs :
        (pc[r] = "failed" /\ error[r].stage = "write" /\ pdf_ready[r].set)
            => error[r].kind = "FileIOError"

\* What the validators of the document and audit models demand, stated on
\* the document itself.
DocumentValidated(doc) ==
    /\ doc.schema_version = "1.0"
    /\ doc.meta.document_title # <<>>
    /\ doc.meta.document_version # <<>>
    /\ doc.meta.source_set # <<>>
    /\ doc.meta.audit.schema_version = "1.0"
    /\ doc.meta.audit.producer.name \notin {"", " "}
    /\ doc.meta.audit.source.systems # <<>>
    /\ \A i \in 1..Len(doc.content.user_stories) : doc.content.user_stories[i].title # ""

\* C4: the output file is written at most once per run; a write happens
\* only after load, adapter selection, parse and build with all model
\* validation have succeeded; a run that returns normally has written the
\* output exactly once.
C4_WriteOnceAfterValidation ==
    \A r \in Runs :
        /\ writes[r] <= 1
        /\ outfile[r] # outfile0[r] => writes[r] = 1
        /\ writes[r] = 1 =>
              /\ IsPrefix(<<"load", "detect", "parse", "build">>, trace[r])
              /\ payload[r].set /\ adapter_result[r].set /\ pdf_ready[r].set
              /\ DocumentValidated(pdf_ready[r].v)
        /\ pc[r] = "done" =>
              /\ writes[r] = 1
              /\ outfile[r].state = "complete"
              /\ outfile[r].doc = pdf_ready[r].v

C4_Witness ==
    \E r \in Runs :
        /\ pc[r] = "done"
        /\ writes[r] = 1
        /\ outfile[r].state = "complete"
        /\ outfile0[r].state = "old"

\* C5: the stages run in the order load, adapter selection, parse, build,
\* write, each at most once; a run that has failed failed in the last
\* stage it entered, and executes nothing afterwards.
C5_StageOrder ==
    \A r \in Runs :
        /\ IsPrefix(trace[r], STAGES)
        /\ pc[r] = "failed" => (trace[r] # <<>> /\ error[r].stage = trace[r][Len(trace[r])])
        /\ pc[r] = "done" => trace[r] = STAGES

C5_NothingAfterFailure ==
    \A r \in Runs :
        pc[r] = "failed" =>
            /\ pc'[r] = "failed"
            /\ trace'[r] = trace[r]
            /\ writes'[r] = writes[r]
            /\ outfile'[r] = outfile[r]
            /\ error'[r] = error[r]

C5_StagesInOrderNoRetry == [][C5_StageOrder' /\ C5_NothingAfterFailure]_vars

C5_Witness ==
    \E r \in Runs :
        /\ pc[r] = "failed"
        /\ trace[r] = <<"load", "detect", "parse">>
        /\ ~adapter_result[r].set
        /\ writes[r] = 0

\* C6: after a failed run the output file is what it was before the run:
\* no new, truncated or partially written file.
C6_FailedRunLeavesDestination ==
    \A r \in Runs :
        pc[r] = "failed" =>
            /\ outfile[r].state = outfile0[r].state
            /\ outfile[r].doc = outfile0[r].doc

\* The two input files differ at most in metadata.generator.version, which
\* is a non-empty string in both.
DifferOnlyInVersion(f1, f2) ==
    /\ f1.kind = "json" /\ f2.kind = "json"
    /\ HasVersionString(f1.payload) /\ HasVersionString(f2.payload)
    /\ WithVersion(f1.payload, EmptyString) = WithVersion(f2.payload, EmptyString)

\* A document without its audit envelope and its generation timestamp.
OutsideAudit(doc) == [doc EXCEPT !.meta.audit = NoDoc, !.meta.generated_at = 0]

\* C8: two runs given payloads that differ only in the value of
\* metadata.generator.version (a non-empty string in both), with the same
\* options and destinations alike, execute the same stages and end in the
\* same outcome; on success their documents differ only inside meta.audit
\* and in the timestamps.
C8_VersionNeverChangesControlFlow ==
    (/\ Ended(1) /\ Ended(2)
     /\ DifferOnlyInVersion(infile[1], infile[2])
     /\ options[1] = options[2]
     /\ outenv[1] = outenv[2]
     /\ outfile0[1] = outfile0[2])
        => /\ trace[1] = trace[2]
           /\ pc[1] = pc[2]
           /\ error[1].kind = error[2].kind
           /\ error[1].stage = error[2].stage
           /\ pc[1] = "done" => OutsideAudit(outfile[1].doc) = OutsideAudit(outfile[2].doc)

C8_Witness ==
    /\ pc[1] = "done" /\ pc[2] = "done"
    /\ DifferOnlyInVersion(infile[1], infile[2])
    /\ adapter_result[1].v.warnings = <<>>
    /\ adapter_result[2].v.warnings # <<>>
    /\ outfile[1].doc.meta.audit # outfile[2].doc.meta.audit

(***************************************************************************)
(* Properties of check_compatibility (specification CompatSpec)            *)
(***************************************************************************)
\* A string that neither grammar reads as a version.
NotAVersion(v) == ~SemverValid(v) /\ ~VersionParses(v)

\* C7: check_compatibility(v) returns no warning if and only if v is a
\* semantic version with 1.0.0 <= v < 2.0.0 under semantic-versioning
\* precedence; exactly one INVALID_VERSION warning when v cannot be parsed
\* as a version; exactly one warning, INVALID_VERSION or VERSION_MISMATCH,
\* in every remaining case.
C7_CompatibleIffSemverInRange ==
    compat_pc = "returned" =>
        /\ compat_result = <<>> <=> SemverInRange(version)
        /\ NotAVersion(version) =>
              (Len(compat_result) = 1 /\ compat_result[1].code = "INVALID_VERSION")
        /\ ~SemverInRange(version) =>
              (Len(compat_result) = 1
               /\ compat_result[1].code \in {"INVALID_VERSION", "VERSION_MISMATCH"})

(***************************************************************************)
(* Properties of normalize_sections (specification NormSpec)               *)
(***************************************************************************)
Returned == norm_pc = "returned"

\* A heading of sections_raw whose content goes to the description: the
\* pre-heading bucket, a description synonym or an unknown heading.
FeedsDescription(heading) ==
    \/ heading = <<>>
    \/ ~IsSynonym(normalize_heading(heading))
    \/ synonym_to_canonical(normalize_heading(heading)) = "description"

\* The description-synonym content, the pre-heading content and the
\* unknown-heading blocks of the body are all empty after trimming.
NoDescriptionContent(markdown) ==
    \/ ~Truthy(markdown)
    \/ LET raw == split_by_headings(markdown.s)
       IN \A i \in 1..Len(raw) : FeedsDescription(raw[i].k) => strip(raw[i].v) = <<>>

\* C9: for every body the mapping returned by normalize_sections contains
\* the key "description", set to None when there is nothing to report, also
\* when other canonical sections are populated.
C9_DescriptionKeyAlwaysPresent ==
    Returned =>
        /\ "description" \in DOMAIN norm_result
        /\ (NoDescriptionContent(body) /\ DOMAIN norm_result # {"description"})
              => norm_result["description"] = None

\* C10: when nothing feeds the description, normalize_sections reports it
\* as None and never as an empty string (a key left out reads as None); for
\* an empty body the result is exactly {description: None}.
C10_EmptyDescriptionIsNone ==
    (Returned /\ NoDescriptionContent(body)) =>
        /\ "description" \in DOMAIN norm_result => norm_result["description"] = None
        /\ ~Truthy(body) => norm_result = OnlyDescription(None)

IsSuffix(a, b) == Len(a) <= Len(b) /\ a = SubSeq(b, Len(b) - Len(a) + 1, Len(b))

\* The trimmed content that follows the i-th level-2 heading of the text.
OccurrenceContent(t, matches, i) ==
    strip(SubSeq(t,
                 IF matches[i].last + 1 <= Len(t) /\ t[matches[i].last + 1] = NL
                 THEN matches[i].last + 2
                 ELSE matches[i].last + 1,
                 IF i + 1 <= Len(matches) THEN matches[i + 1].start - 1 ELSE Len(t)))

\* The level-3 blocks of the heading occurrences from the i-th on whose
\* text is not in the synonym table and whose content is not empty.
RECURSIVE UnrecognizedBlocks(_, _, _)
UnrecognizedBlocks(t, matches, i) ==
    IF i > Len(matches)
    THEN <<>>
    ELSE IF /\ strip(matches[i].group) # <<>>
            /\ ~IsSynonym(normalize_heading(matches[i].group))
            /\ OccurrenceContent(t, matches, i) # <<>>
    THEN <<UnknownBlock(strip(matches[i].group), OccurrenceContent(t, matches, i))>>
         \o UnrecognizedBlocks(t, matches, i + 1)
    ELSE UnrecognizedBlocks(t, matches, i + 1)

\* C11: every occurrence of a level-2 heading that is not in the synonym
\* table (and has content) is in the final description as a "### heading"
\* block, one block per occurrence, in encounter order, after the
\* pre-heading content; two occurrences with the same text give two blocks.
C11_UnrecognizedHeadingsKept ==
    (Returned /\ Truthy(body) /\ UnrecognizedBlocks(body.s, FindIter(body.s, 1), 1) # <<>>)
        => /\ "description" \in DOMAIN norm_result
           /\ ~norm_result["description"].isNone
           /\ IsSuffix(JoinBlank(UnrecognizedBlocks(body.s, FindIter(body.s, 1), 1)),
                       norm_result["description"].s)

(***************************************************************************)
(* Properties of the adapter and the builder (specification AdapterSpec)   *)
(***************************************************************************)
Parsed == a_pc \in {"build", "end"} /\ a_parsed.ok

Built == a_pc = "end" /\ a_parsed.ok

\* The payload declares its source systems and no repository.
ZeroRepositories(p) ==
    /\ p.object
    /\ p.metadata.t = "obj"
    /\ p.metadata.source.t = "obj"
    /\ p.metadata.source.systems # <<>>
    /\ p.metadata.source.repositories = <<>>

\* C12: for a payload with zero declared repositories and no title
\* override, parse followed by build_pdf_ready produces a document in which
\* every item id is "github:unknown/repo#<number>" and the document title
\* is "Living Documentation".
C12_ZeroRepositoriesFallbacks ==
    (Built /\ ZeroRepositories(a_payload) /\ ~Truthy(a_options.document_title))
        => /\ a_built.ok
           /\ \A i \in 1..Len(a_built.value.content.user_stories) :
                 a_built.value.content.user_stories[i].id
                    = <<"github:", "unknown/repo", "#",
                        NumberText(a_payload.issues.items[i].number)>>
           /\ a_built.value.meta.document_title = <<"Living Documentation">>

\* C13: every item id of the output is "github:", the repository, "#" and
\* the number, the system prefix occurring exactly once, also when the first
\* declared repository is written with the "github:" prefix.
C13_IdHasOnePrefix ==
    (Built /\ a_built.ok) =>
        \A i \in 1..Len(a_built.value.content.user_stories) :
            LET id == a_built.value.content.user_stories[i].id
            IN /\ Len(id) = 4
               /\ id[1] = "github:"
               /\ id[2] # "github:"
               /\ id[3] = "#"
               /\ id[4] = NumberText(a_payload.issues.items[i].number)

\* The fields build_pdf_ready copies from an item into its user story.
Copied(x) ==
    [id |-> x.id, title |-> x.title, state |-> x.state, tags |-> x.tags,
     url |-> x.url, timestamps |-> x.timestamps]

\* C14: the document build_pdf_ready returns for a result with n items has
\* exactly n user stories, the i-th carrying the i-th item's id, title,
\* state, tags, url and timestamps unchanged, and a selection summary with
\* total_items = included_items = n and excluded_items = 0.
C14_OneStoryPerItem ==
    (Built /\ a_built.ok) =>
        LET items == a_parsed.value.items
            stories == a_built.value.content.user_stories
            summary == a_built.value.meta.selection_summary
        IN /\ Len(stories) = Len(items)
           /\ \A i \in 1..Len(items) : Copied(stories[i]) = Copied(items[i])
           /\ summary.total_items = Len(items)
           /\ summary.included_items = Len(items)
           /\ summary.excluded_items = 0
           /\ summary.total_items = summary.included_items + summary.excluded_items

C14_Witness ==
    /\ Built
    /\ a_built.ok
    /\ Len(a_parsed.value.items) = MaxIssues
    /\ Len(a_built.value.content.user_stories) = MaxIssues
    /\ a_built.value.content.user_stories[MaxIssues].id = a_parsed.value.items[MaxIssues].id

(***************************************************************************)
(* Properties of adapter selection in run_service (specification Spec).    *)
(***************************************************************************)
\* The run has gone past adapter selection, one way or the other.
Selected(r) == payload[r].set /\ Len(trace[r]) >= 2 /\ pc[r] # "detect"

\* The adapter parser has been invoked, or is the next step of the run.
ParserInvoked(r) == pc[r] = "parse" \/ (Len(trace[r]) >= 3 /\ trace[r][3] = "parse")

\* C15: run_service invokes the adapter parser if and only if the source
\* option is "collector-gh", whatever the detector says of the payload, or
\* the source option is "auto" or absent and can_handle(payload) is true;
\* in every other case the run fails with AdapterError at adapter
\* selection, before any parsing, building or writing.
C15_ParserInvokedIffSelected ==
    \A r \in Runs :
        Selected(r) =>
            LET source == IF "source" \in DOMAIN options[r] THEN options[r].source ELSE "auto"
                wanted == \/ source = "collector-gh"
                          \/ source = "auto" /\ can_handle(payload[r].v) = Ok(TRUE)
            IN /\ ParserInvoked(r) <=> wanted
               /\ ~wanted =>
                     /\ pc[r] = "failed"
                     /\ error[r].kind = "AdapterError"
                     /\ error[r].stage = "detect"
                     /\ trace[r] = <<"load", "detect">>
                     /\ ~adapter_result[r].set /\ ~pdf_ready[r].set
                     /\ writes[r] = 0 /\ outfile[r] = outfile0[r]

\* A run with the explicit source option "collector-gh" on a payload the
\* detector does not recognize has reached the parser.
C15_Witness ==
    \E r \in Runs :
        /\ Selected(r)
        /\ "source" \in DOMAIN options[r] /\ options[r].source = "collector-gh"
        /\ can_handle(payload[r].v) = Ok(FALSE)
        /\ Len(trace[r]) >= 3 /\ trace[r][3] = "parse"

(***************************************************************************)
(* Properties of the detector and the parser (specification AdapterSpec).  *)
(***************************************************************************)
VersionCalled == a_pc \in {"parse", "build", "end"}

\* The payload holds a non-empty string at metadata.generator.version.
VersionIsNonEmptyString(p) ==
    /\ p.object
    /\ p.metadata.t = "obj"
    /\ p.metadata.generator.t = "obj"
    /\ p.metadata.generator.version.t = "str"
    /\ p.metadata.generator.version.s # EmptyString

\* C16: extract_version returns the value at metadata.generator.version
\* only when it is a non-empty string; for an absent field or node, a node
\* or a version of the wrong type (a non-string version included) and an
\* empty version it raises AdapterError whose message contains the dotted
\* path "metadata.generator.version".
C16_VersionOnlyNonEmptyString ==
    VersionCalled =>
        IF VersionIsNonEmptyString(a_payload)
        THEN a_version = Ok(a_payload.metadata.generator.version)
        ELSE /\ ~a_version.ok
             /\ a_version.kind = "AdapterError"
             /\ \E i \in DOMAIN a_version.msg : a_version.msg[i] = VERSION_PATH

CanHandleCalled == a_pc \in {"extract_version", "parse", "build", "end"}

\* payload.metadata.generator.name exists and is exactly the collector's name.
NameIsCollectorGh(p) ==
    /\ p.object
    /\ p.metadata.t = "obj"
    /\ p.metadata.generator.t = "obj"
    /\ p.metadata.generator.name = JStr("AbsaOSS/living-doc-collector-gh")

\* C17: can_handle never raises, whatever JSON value it is given (missing
\* keys, null or non-object intermediate nodes, a payload that is not an
\* object): it returns True if and only if payload.metadata.generator.name
\* is exactly "AbsaOSS/living-doc-collector-gh", and False otherwise.
C17_CanHandleNeverRaises ==
    CanHandleCalled =>
        /\ a_can_handle.ok
        /\ a_can_handle.value \in BOOLEAN
        /\ a_can_handle.value <=> NameIsCollectorGh(a_payload)

\* can_handle has answered False for a payload whose lookup fails inside:
\* a null or non-object node on the path, or a payload that is not an object.
C17_Witness ==
    /\ CanHandleCalled
    /\ ~CanHandleBody(a_payload).ok
    /\ a_can_handle = Ok(FALSE)

ParseCalled == a_pc \in {"build", "end"}

\* A raw issue that lacks a required field or holds one of the wrong type:
\* the number is an integer, the other required fields are strings.
OffendingIssue(issue) ==
    /\ issue.object
    /\ \/ \E f \in {"number", "title", "state", "html_url", "created_at", "updated_at"} :
             issue[f].t = "absent"
       \/ issue.number.t # "num"
       \/ \E f \in {"title", "state", "html_url", "created_at", "updated_at"} :
             issue[f].t # "str"

\* How an error message names a raw issue.
IssueLabel(issue) ==
    IF issue.number.t = "absent" THEN "unknown"
    ELSE IF issue.number.t = "num" THEN ToString(issue.number.n)
    ELSE IF issue.number.t = "str" THEN issue.number.s
    ELSE "None"

\* C18: if a raw issue, at any position of the list, lacks a required field
\* (number, title, state, html_url, created_at, updated_at) or has one of
\* the wrong type, parse raises AdapterError whose message names the number
\* of that issue, or "unknown" when the number itself is missing.
C18_OffendingIssueNamed ==
    (ParseCalled /\ a_version.ok /\ a_payload.issues.t = "list") =>
        \A i \in DOMAIN a_payload.issues.items :
            (/\ OffendingIssue(a_payload.issues.items[i])
             /\ \A j \in 1..(i - 1) :
                   /\ a_payload.issues.items[j].object
                   /\ ~OffendingIssue(a_payload.issues.items[j]))
                => /\ ~a_parsed.ok
                   /\ a_parsed.kind = "AdapterError"
                   /\ \E k \in DOMAIN a_parsed.msg :
                         a_parsed.msg[k] = IssueLabel(a_payload.issues.items[i])

\* The raw issues of a payload: payload.get("issues", []).
RawIssues(p) == IF p.issues.t = "absent" THEN <<>> ELSE p.issues.items

\* C19: for any payload, parse either returns an AdapterResult with one
\* item for every raw issue, in input order, or raises AdapterError; it
\* never returns a result for some of the issues only, no exception of
\* another type escapes, and the AdapterError raised for an inner failure
\* contains the message of the inner cause.
C19_AllItemsOrAdapterError ==
    ParseCalled =>
        IF a_parsed.ok
        THEN /\ Len(a_parsed.value.items) = Len(RawIssues(a_payload))
             /\ \A i \in DOMAIN a_parsed.value.items :
                   LET item == a_parsed.value.items[i]
                       issue == RawIssues(a_payload)[i]
                   IN /\ item.id[Len(item.id)] = IssueLabel(issue)
                      /\ item.title = issue.title.s
                      /\ item.url = issue.html_url.s
        ELSE /\ a_parsed.kind = "AdapterError"
             /\ ~parse_unwrapped(a_payload).ok
             /\ IsSuffix(parse_unwrapped(a_payload).msg, a_parsed.msg)

\* parse has raised AdapterError for an exception of another type raised
\* inside it, and carries that exception's message.
C19_Witness ==
    /\ ParseCalled
    /\ ~a_parsed.ok
    /\ a_parsed.kind = "AdapterError"
    /\ parse_unwrapped(a_payload).kind \in {"ValidationError", "AttributeError", "TypeError"}
    /\ a_parsed.msg # parse_unwrapped(a_payload).msg

\* C20: every AdapterResult returned by parse satisfies the constraints of
\* the intermediate data model: the title of each item is non-empty, the
\* producer name is non-empty and the list of source systems is non-empty;
\* a payload that violates one of them fails inside parse and is not
\* handed to the builder.
C20_ParsedResultConstrained ==
    (ParseCalled /\ a_parsed.ok) =>
        /\ \A i \in DOMAIN a_parsed.value.items : a_parsed.value.items[i].title # ""
        /\ a_parsed.value.metadata.producer.name # ""
        /\ a_parsed.value.metadata.source.systems # <<>>

(***************************************************************************)
(* Properties of the data models (specification ModelSpec).                *)
(***************************************************************************)
\* C21: every structured record of the pipeline (the adapter records, the
\* document records, the audit envelope records) rejects unknown fields:
\* constructing or deserializing a record with a field its schema does not
\* declare fails validation; the field is never ignored or kept.
C21_UnknownFieldsRejected ==
    (m_pc \in {"constructed", "deserialized"} /\ m_data \ Schema(m_model).fields # {}) =>
        /\ ~m_result.ok
        /\ m_result.kind = "ValidationError"

(***************************************************************************)
(* Properties of the output file (specification TwinSpec).                 *)
(***************************************************************************)
\* The document with its three clock readings blanked.
WithoutTimestamps(doc) ==
    [doc EXCEPT !.meta.generated_at = 0,
                !.meta.audit.trace =
                    [i \in DOMAIN @ |-> [@[i] EXCEPT !.started_at = 0, !.finished_at = 0]]]

\* The number of spaces a line begins with.
IndentOf(line) == Cardinality({i \in DOMAIN line : \A j \in 1..i : line[j] = Space})

\* What the layout of a line is made of: its indentation, its first token
\* after it (no line is blank), whether it ends with an opening bracket and
\* whether it begins with a closing one.
LineShape(line, indent) ==
    [indent |-> indent,
     first |-> line[indent + 1],
     opens |-> line[Len(line)] \in {Punct("{"), Punct("[")},
     closes |-> line[indent + 1] \in {Punct("}"), Punct("]")}]

Shapes(lines) == [i \in DOMAIN lines |-> LineShape(lines[i], IndentOf(lines[i]))]

ShapesOf(text) == CHOOSE shapes \in {Shapes(lines) : lines \in {text.lines}} : TRUE

\* Every line is indented by two spaces more than the line that opened the
\* bracket it is in, and a closing bracket as the line that opened it.
IndentedByTwo(shapes) ==
    /\ shapes[1].indent = 0
    /\ \A i \in 1..(Len(shapes) - 1) :
          shapes[i + 1].indent =
              shapes[i].indent + (IF shapes[i].opens THEN 2 ELSE 0)
                               - (IF shapes[i + 1].closes THEN 2 ELSE 0)

\* Of two keys of one object, one after the other, the first is the smaller.
KeysAscending(shapes) ==
    \A i \in DOMAIN shapes :
        shapes[i].first[1] = "key" =>
            \A j \in (i + 1)..Len(shapes) :
                (/\ shapes[j].indent = shapes[i].indent
                 /\ shapes[j].first[1] = "key"
                 /\ \A k \in (i + 1)..(j - 1) :
                       \/ shapes[k].indent > shapes[i].indent
                       \/ shapes[k].indent = shapes[i].indent /\ shapes[k].closes)
                    => Rank(shapes[i].first[2]) < Rank(shapes[j].first[2])

WellLaidOut(shapes) == IndentedByTwo(shapes) /\ KeysAscending(shapes)

\* The text has sorted keys, an indentation of two spaces and one newline
\* at its end.
Canonical(text) == (\A shapes \in {ShapesOf(text)} : WellLaidOut(shapes)) /\ text.newlines = 1

\* C22: two runs of run_service on the same input file with the same
\* options write files that are identical byte for byte but for
\* meta.generated_at and the started_at and finished_at of the trace step;
\* in each file the keys are in lexicographic order at every level of
\* nesting, the indentation is 2 spaces a level, and the text ends with
\* exactly one newline.
C22_OutputDeterministic ==
    /\ \A r \in Runs :
          pc[r] = "done" => \A text \in {FileText(outfile[r].doc)} : Canonical(text)
    /\ (pc[1] = "done" /\ pc[2] = "done" /\ infile[1] = infile[2] /\ options[1] = options[2]) =>
          FileText(WithoutTimestamps(outfile[1].doc)) = FileText(WithoutTimestamps(outfile[2].doc))

\* Both runs have written their file for the same input, with different
\* clock readings: the two files differ, and only in the timestamps.
C22_Witness ==
    /\ pc[1] = "done" /\ pc[2] = "done"
    /\ infile[1] = infile[2] /\ options[1] = options[2]
    /\ outfile[1].doc.meta.generated_at # outfile[2].doc.meta.generated_at
    /\ outfile[1].doc.content.user_stories # <<>>

(***************************************************************************)
(* Properties of overlapping runs (specification ConcurrentSpec).          *)
(***************************************************************************)
\* The variables of run r that hold what the run leaves behind.
Outcome(r) == <<pc[r], outfile[r], error[r], writes[r]>>

\* C23: overlapping invocations of run_service on different input and
\* output files share no mutable state: nothing an invocation touches
\* holds state that outlives the call, an invocation in progress finds the
\* components it set up as it set them up, and a step of one invocation
\* changes nothing of what the other one ends with.
C23_NoSharedMutableState ==
    /\ [](/\ (\A r \in Runs : Ended(r)) => logger = UnconfiguredLogger
          /\ \A r \in Runs :
                (pc[r] # "load" /\ ~Ended(r)) => logger = setup_logging(Verbose(options[r])))
    /\ [][\A r \in Runs : Outcome(r)' # Outcome(r) => \A q \in Runs \ {r} : Outcome(q)' = Outcome(q)]_vars

(***************************************************************************)
(* Properties of the errors of run_service (specification Spec).           *)
(***************************************************************************)
\* The exception raised inside the stage at which run r failed.
RaisedInside(r) ==
    CASE error[r].stage = "load" -> read_json(infile[r])
      [] error[r].stage = "detect" -> select_adapter(payload[r].v, options[r])
      [] error[r].stage = "parse" -> parse(payload[r].v)
      [] error[r].stage = "build" -> build_pdf_ready(adapter_result[r].v, options[r], 1, 1)
      [] OTHER -> write_json(outfile0[r], pdf_ready[r].v, outenv[r]).raised

RECURSIVE ContentsFor(_, _, _, _)
ContentsFor(canonical, t, matches, i) ==
    IF i > Len(matches)
    THEN <<>>
    ELSE IF /\ IsSynonym(normalize_heading(matches[i].group))
            /\ synonym_to_canonical(normalize_heading(matches[i].group)) = canonical
            /\ OccurrenceContent(t, matches, i) # <<>>
    THEN <<OccurrenceContent(t, matches, i)>> \o ContentsFor(canonical, t, matches, i + 1)
    ELSE ContentsFor(canonical, t, matches, i + 1)

\* The trimmed text in front of the first level-2 heading.
PreHeadingContent(t, matches) ==
    strip(IF matches = <<>> THEN t ELSE SubSeq(t, 1, matches[1].start - 1))

\* The parts of the description as the body gives them: the content of the
\* description heading, the pre-heading text, the unknown-heading blocks.
DescriptionParts(t, matches) ==
    LET known == ContentsFor("description", t, matches, 1)
        pre == PreHeadingContent(t, matches)
    IN (IF known # <<>> THEN <<known[Len(known)]>> ELSE <<>>)
       \o (IF pre # <<>> THEN <<pre>> ELSE <<>>)
       \o UnrecognizedBlocks(t, matches, 1)

\* C25: for every body with at least one non-empty part, the final
\* description is the description-synonym content, then the pre-heading
\* content, then the unknown-heading blocks in encounter order, each part
\* present only when it is not empty, joined by one blank line.
C25_DescriptionMergeOrder ==
    (Returned /\ Truthy(body))
        => \A parts \in {DescriptionParts(body.s, FindIter(body.s, 1))} :
              parts # <<>>
                  => /\ "description" \in DOMAIN norm_result
                     /\ norm_result["description"] = Str(JoinBlank(parts))

(***************************************************************************)
(* Several headings of one canonical key (specification NormSpec)          *)
(***************************************************************************)
\* The canonical keys that get a field of their own in the result.
SectionKeys == CanonicalKeys \ {"description"}

\* C26: when level-2 headings of the body map to a canonical key, the value
\* stored under that key is the trimmed content of the last of them, in
\* document order, that has non-empty content; a later heading of the key
\* with empty content does not erase it.
C26_LastNonEmptyContentWins ==
    (Returned /\ Truthy(body))
        => \A canonical \in SectionKeys :
              \A contents \in {ContentsFor(canonical, body.s, FindIter(body.s, 1), 1)} :
                  contents # <<>>
                      => /\ canonical \in DOMAIN norm_result
                         /\ norm_result[canonical] = Str(contents[Len(contents)])

(***************************************************************************)
(* The audit envelope of a built document (specification AdapterSpec)      *)
(***************************************************************************)
Audit == a_built.value.meta.audit

\* C27: every document returned by build_pdf_ready has an audit envelope
\* with schema_version "1.0" whose trace holds exactly one step, named
\* "normalization", of tool "living-doc-toolkit" version "1.0.0", whose
\* started_at and finished_at are the same clock reading.
C27_OneInstantaneousTraceStep ==
    (Built /\ a_built.ok)
        => /\ Audit.schema_version = "1.0"
           /\ Len(Audit.trace) = 1
           /\ Audit.trace[1].step = "normalization"
           /\ Audit.trace[1].tool = "living-doc-toolkit"
           /\ Audit.trace[1].tool_version = "1.0.0"
           /\ Audit.trace[1].started_at \in Clock
           /\ Audit.trace[1].finished_at = Audit.trace[1].started_at

\* A document was returned whose envelope was stamped at an earlier clock
\* reading than the document itself.
C27_Witness ==
    /\ Built
    /\ a_built.ok
    /\ Len(Audit.trace) = 1
    /\ Audit.trace[1].started_at < a_built.value.meta.generated_at
    /\ Audit.trace[1].finished_at = Audit.trace[1].started_at

\* C28: the audit envelope is a projection of the adapter result: producer,
\* run and source are the adapter metadata's; the warnings of the trace
\* step are the adapter warnings, as many and in the same order, with code,
\* message and context unchanged; the extensions have the one key
\* "collector-gh", which holds the raw metadata of the input, unchanged,
\* under "original_metadata".
C28_AuditProjectsAdapterResult ==
    (Built /\ a_built.ok)
        => /\ Audit.producer = a_parsed.value.metadata.producer
           /\ Audit.run = a_parsed.value.metadata.run
           /\ Audit.source = a_parsed.value.metadata.source
           /\ Len(Audit.trace[1].warnings) = Len(a_parsed.value.warnings)
           /\ \A i \in DOMAIN a_parsed.value.warnings :
                 /\ Audit.trace[1].warnings[i].code = a_parsed.value.warnings[i].code
                 /\ Audit.trace[1].warnings[i].message = a_parsed.value.warnings[i].message
                 /\ Audit.trace[1].warnings[i].context = a_parsed.value.warnings[i].context
           /\ DOMAIN Audit.extensions = {"collector-gh"}
           /\ DOMAIN Audit.extensions["collector-gh"] = {"original_metadata"}
           /\ Audit.extensions["collector-gh"].original_metadata
                 = a_parsed.value.metadata.original_metadata
           /\ Audit.extensions["collector-gh"].original_metadata = a_payload.metadata

\* A document was returned for an input whose producer version made the
\* adapter warn.
C28_Witness ==
    /\ Built
    /\ a_built.ok
    /\ a_parsed.value.warnings # <<>>
    /\ Audit.trace[1].warnings = a_parsed.value.warnings
    /\ Audit.extensions["collector-gh"].original_metadata = a_payload.metadata

(***************************************************************************)
(* Title and run context of a built document (specification AdapterSpec)   *)
(***************************************************************************)
\* A source_set entry without its system prefix.
WithoutSystemPrefix(entry) ==
    IF entry # <<>> /\ entry[1] = "github:" THEN Tail(entry) ELSE entry

\* C29: the title of a returned document is the caller's override when
\* that is a non-empty string; otherwise it is "Living Documentation - "
\* followed by the first source_set entry without its "github:" prefix,
\* source_set being the declared repositories in order, each with "github:"
\* in front unless it starts with it already.
C29_TitleOverrideOrFirstRepository ==
    (Built /\ a_built.ok)
        => LET repositories == a_parsed.value.metadata.source.repositories
               source_set == a_built.value.meta.source_set
           IN /\ Len(source_set) = Len(repositories)
              /\ \A i \in DOMAIN repositories :
                    source_set[i] = IF repositories[i] # <<>> /\ repositories[i][1] = "github:"
                                    THEN repositories[i]
                                    ELSE <<"github:">> \o repositories[i]
              /\ a_built.value.meta.document_title
                    = IF Truthy(a_options.document_title)
                      THEN a_options.document_title.s
                      ELSE <<"Living Documentation - ">> \o WithoutSystemPrefix(source_set[1])

\* The str | None value of a metadata field is a non-empty string.
NonEmptyString(node) == node.t = "str" /\ node.s # ""

\* C30: meta.run_context of a returned document is present exactly when
\* the adapter metadata has a non-empty run_id, and then its ci_run_id,
\* triggered_by, branch and commit_sha are the metadata's run_id, actor,
\* ref and sha.
C30_RunContextIffRunId ==
    (Built /\ a_built.ok)
        => LET run == a_parsed.value.metadata.run
               run_context == a_built.value.meta.run_context
           IN /\ run_context.present <=> NonEmptyString(run.run_id)
              /\ run_context.present
                    => /\ run_context.ci_run_id = run.run_id
                       /\ run_context.triggered_by = run.actor
                       /\ run_context.branch = run.ref
                       /\ run_context.commit_sha = run.sha

\* A document was returned with a run context, for an input with a run_id.
C30_Witness ==
    /\ Built
    /\ a_built.ok
    /\ a_built.value.meta.run_context.present
    /\ a_built.value.meta.run_context.ci_run_id = a_payload.metadata.run.run_id

====
